---- MODULE Spec2Model ----
(***************************************************************************)
(* Vision-Z: relevance filter, proximity alerts and description throttle   *)
(* of the "Claude" variant (core/object_detector.py,                       *)
(* core/audio_feedback.py, core/language_processor.py, app2.py,            *)
(* server/api_server.py), its camera handler, audio thread, battery        *)
(* optimizer and configuration, and of the dashboard ("kimi") variant the  *)
(* audio module, the database manager, the vision agent and the threads of *)
(* app.py; of the "Z AI" variant the page that registers faces.            *)
(*                                                                         *)
(* Units: distances are tenths of a metre (2.0 m = 20), times are whole    *)
(* seconds of time.time(), box sizes and centres are percent of the frame  *)
(* width.  Strings are sequences of pieces; None is a separate value.      *)
(***************************************************************************)
EXTENDS Integers, Sequences, FiniteSets, TLC

VARIABLES
    pc,                 \* where the request or the tick at hand stands
    frame,              \* the boxes the detector finds in the frame at hand
    detections,         \* result of ObjectDetector.detect
    relevant,           \* result of ObjectDetector.filter_relevant
    clock,              \* time.time(), whole seconds
    enabled,            \* AudioFeedback.enabled
    audio_queue,        \* AudioFeedback.audio_queue, head first
    last_alert_time,    \* ProximityAlertSystem.last_alert_time (a dict)
    checked,            \* this tick's argument of check_proximity
    emitted,            \* what this tick's _emit_alert calls did, in order
    alert_log,          \* per class, every alert emitted so far: level, time
    lp_last_description_time,   \* AdaptiveLanguageProcessor.last_description_time
    last_description_time,      \* last_description_time of _main_loop
    lp_call,            \* this tick's call of generate_description, if any
    running,            \* CameraHandler.running
    frame_queue,        \* CameraHandler.frame_queue, head first
    capture_pc,         \* where the capture thread stands in _capture_loop
    processed_frame,    \* the frame the capture thread holds (0: none)
    captured,           \* frames cap.read() has delivered so far
    stop_pc,            \* where the caller of CameraHandler.stop stands
    read_pc,            \* where the caller of CameraHandler.read stands
    read_result,        \* what the last CameraHandler.read returned
    worker_pc,          \* where each audio thread stands in _audio_loop
    message,            \* the message each audio thread took off the queue
    playing,            \* the texts the TTS engine is playing right now
    played,             \* the texts played to the end so far
    failed,             \* the texts on which the engine raised so far
    speak_pc,           \* where each caller of AudioFeedback.speak stands
    speak_priority,     \* the priority argument of the call under way
    pending_before,     \* the texts pending when the call under way began
    interrupted,        \* texts pending before a finished interrupting call
    after_error,        \* texts put on the queue after an engine error
    puts,               \* the number of audio_queue.put calls so far
    current_mode,       \* BatteryOptimizer.current_mode
    battery_level,      \* BatteryOptimizer.battery_level
    is_charging,        \* BatteryOptimizer.is_charging
    battery_updates,    \* update_battery_status calls so far: 0, 1, several
    config,             \* the global config of app/config.py
    load_pc,            \* where the call of load_config under way stands
    data,               \* what yaml.safe_load made of the file
    load_result,        \* what the last load_config returned
    load_outcome,       \* how the last load_config ended
    message_queue,      \* AudioModule.message_queue.queue, head first
    mutex,              \* who holds message_queue.mutex ("free": nobody)
    module_pc,          \* where each caller of AudioModule.speak stands
    module_text,        \* the text argument of the call under way
    module_priority,    \* the priority argument of the call under way
    temp_list,          \* temp_list of the call under way, what is left of it
    pending_at_call,    \* message_queue.queue when the call under way began
    speech_pc,          \* where the speech thread stands in _process_queue
    speech_text,        \* the text the speech thread took off the queue
    is_speaking,        \* AudioModule.is_speaking
    speak_calls,        \* the calls of AudioModule.speak so far
    detections_table,   \* the rows of the table detections
    cached_descriptions,    \* the rows of the table cached_descriptions
    save_call,          \* the last call of save_detection and its result
    cache_call,         \* the last call of get_cached_description, its result
    lookups,            \* the calls of get_cached_description so far
    api_request,        \* the last request POSTed to the API server
    api_response,       \* what the server answered it with
    capture_stage,      \* st.session_state["capture_stage"]
    pending_name,       \* st.session_state["pending_name"]
    info_msg,           \* st.session_state["info_msg"]
    name_input,         \* the text of the text_input widget
    ctx_playing,        \* ctx.state.playing
    video_processor,    \* ctx.video_processor and its two fields
    faces_pkl,          \* the names in the file faces.pkl
    shown,              \* what the last run of the page's script reported
    is_running,         \* st.session_state.is_running
    app_queue,          \* VisionAssistantApp.frame_queue, head first
    starts,             \* the calls of start_assistant that started threads
    main_pc,            \* where the script thread stands in start or stop
    returned,           \* the last call of start or stop and what it returned
    frame_pc,           \* where each thread of process_frames stands
    frame_counter,      \* frame_counter of each process_frames, mod frame_skip
    analysis_pc,        \* where each thread of analyze_frames stands
    analysis_time,      \* current_time of each analyze_frames
    analysis_last_time, \* last_description_time of each analyze_frames
    found,              \* detections of each analyze_frames
    description,        \* description of each analyze_frames
    last_description,   \* st.session_state.last_description
    detection_history,  \* st.session_state.detection_history, newest first
    spoken,             \* the calls speak(description, priority=True)
    agent_history,      \* VisionAgent.detection_history (a defaultdict)
    agent_call,         \* the last call of detect_objects and its result
    agent_reports,      \* the detections reported so far: key and time
    stats,              \* BatteryOptimizer.stats
    frame_call,         \* the last call of should_process_frame
    ollama_call,        \* the last call of should_call_ollama
    camera_battery_level,   \* AdaptiveCameraHandler.battery_level
    frame_interval      \* frame_interval of _capture_loop, milliseconds

camVars == <<running, frame_queue, capture_pc, processed_frame, captured,
             stop_pc, read_pc, read_result>>

workerVars == <<worker_pc, message, playing, played, failed, speak_pc,
                speak_priority, pending_before, interrupted, after_error,
                puts>>

battVars == <<current_mode, battery_level, is_charging, battery_updates>>

cfgVars == <<config, load_pc, data, load_result, load_outcome>>

\* AudioModule of the dashboard variant
moduleVars == <<message_queue, mutex, module_pc, module_text,
                module_priority, temp_list, pending_at_call, speech_pc,
                speech_text, is_speaking, speak_calls>>

\* DatabaseManager of the dashboard variant
dbVars == <<detections_table, cached_descriptions, save_call, cache_call,
            lookups>>

\* VisionAssistantApp and the session state of the dashboard variant
dashVars == <<is_running, app_queue, starts, main_pc, returned,
              frame_pc, frame_counter, analysis_pc, analysis_time,
              analysis_last_time, found, description, last_description,
              detection_history, spoken>>

\* VisionAgent of the dashboard variant
agentVars == <<agent_history, agent_call, agent_reports>>

\* the statistics of BatteryOptimizer
statsVars == <<stats, frame_call, ollama_call>>

\* AdaptiveCameraHandler and the capture loop's interval
adaptVars == <<camera_battery_level, frame_interval>>

\* the API server of the "Claude" variant
apiVars == <<api_request, api_response>>

\* the page "Registrar Rostros" of the "Z AI" variant
faceVars == <<capture_stage, pending_name, info_msg, name_input,
              ctx_playing, video_processor, faces_pkl, shown>>

\* the API server and the pages
restVars == <<apiVars, faceVars>>

laterVars == <<agentVars, statsVars, adaptVars, restVars>>

\* the state of the dashboard variant and of the helpers of utils/
moreVars == <<moduleVars, dbVars, dashVars, laterVars>>

\* the state outside the assistant's pipeline
extVars == <<camVars, workerVars, battVars, cfgVars, moreVars>>

vars == <<pc, frame, detections, relevant, clock, enabled, audio_queue,
          last_alert_time, checked, emitted, alert_log,
          lp_last_description_time, last_description_time, lp_call,
          extVars>>

\* the state of the pipeline: detector, alerts, descriptions, audio queue
coreVars == <<pc, frame, detections, relevant, clock, enabled, audio_queue,
              last_alert_time, checked, emitted, alert_log,
              lp_last_description_time, last_description_time, lp_call>>

\* the state of the "Claude" variant
claudeVars == <<coreVars, camVars, workerVars, battVars, cfgVars>>

\* what the camera handler leaves alone
nonCamVars == <<coreVars, workerVars, battVars, cfgVars, moreVars>>

\* what speak and the audio threads leave alone
nonSpeechVars == <<pc, frame, detections, relevant, clock, enabled,
                   last_alert_time, checked, emitted, alert_log,
                   lp_last_description_time, last_description_time, lp_call,
                   camVars, battVars, cfgVars, moreVars>>

filterVars == <<pc, frame, detections, relevant>>
audioVars  == <<enabled, audio_queue>>
proxVars   == <<last_alert_time, checked, emitted, alert_log>>
descVars   == <<lp_last_description_time, last_description_time, lp_call>>

----------------------------------------------------------------------------
(* Bounds of the model *)

\* largest number of boxes in one frame of a /detect request
MaxBoxes == 6

\* time.time() when the objects are constructed, and the seconds modelled
StartTime == 10
Horizon == 3

\* longest list handed to check_proximity by the harness of SpecProx
MaxProx == 2

\* most objects in one frame of the main loop
MaxFrame == 2

\* most utterances pending in the (unbounded) audio queue
MaxQueue == 1

----------------------------------------------------------------------------
(* Configuration: app/config.py *)

\* YOLOConfig.priority_classes
priority_classes ==
    {"person", "car", "bus", "truck", "bicycle", "motorcycle",
     "chair", "bench", "door", "stairs"}

\* det['priority'] not set: the key is absent from the dict
NoPriority == "absent"

----------------------------------------------------------------------------
(* The detector's raw result: one box per object, [cls, size, cx] with     *)
(* size = max(pixel_width, pixel_height) and cx = centre, both in percent  *)
(* of the frame width.                                                     *)

BoxKinds ==
    { [cls |-> "cup",    size |-> 60, cx |-> 20],    \* 1.0 m, izquierda
      [cls |-> "person", size |-> 15, cx |-> 80],    \* 4.0 m, derecha
      [cls |-> "cup",    size |-> 25, cx |-> 50],    \* 2.5 m, frente
      [cls |-> "cup",    size |-> 15, cx |-> 50],    \* 4.0 m, frente
      [cls |-> "person", size |-> 5,  cx |-> 50] }   \* 6.0 m, frente

RECURSIVE SeqsUpTo(_, _)
SeqsUpTo(S, n) ==
    IF n = 0 THEN { <<>> }
    ELSE LET shorter == SeqsUpTo(S, n - 1)
         IN  shorter \cup { Append(s, x) : s \in shorter, x \in S }

\* utils/distance_estimator.py: estimate_distance
estimate_distance(box) ==
    IF box.size > 50 THEN 10
    ELSE IF box.size > 30 THEN 15
    ELSE IF box.size > 20 THEN 25
    ELSE IF box.size > 10 THEN 40
    ELSE 60

\* ObjectDetector._get_position
_get_position(box) ==
    IF box.cx < 33 THEN "izquierda"
    ELSE IF box.cx > 66 THEN "derecha"
    ELSE "frente"

\* list.sort(key=lambda x: x['distance']) is stable: d goes behind every
\* element that is not farther than it
RECURSIVE InsertByDistance(_, _)
InsertByDistance(d, s) ==
    IF s = <<>> THEN <<d>>
    ELSE IF d.distance < Head(s).distance THEN <<d>> \o s
    ELSE <<Head(s)>> \o InsertByDistance(d, Tail(s))

\* the sort left out
UnsortedByDistance(s) == s

RECURSIVE SortByDistance(_)
SortByDistance(s) ==
    IF s = <<>> THEN <<>>
    ELSE InsertByDistance(s[Len(s)], SortByDistance(SubSeq(s, 1, Len(s) - 1)))

\* ObjectDetector.detect: one detection per box (id stands for the bbox),
\* nearest first
detect(boxes) ==
    SortByDistance(
        [i \in 1..Len(boxes) |->
            [id       |-> i,
             class    |-> boxes[i].cls,
             distance |-> estimate_distance(boxes[i]),
             position |-> _get_position(boxes[i]),
             priority |-> NoPriority]])

Min(a, b) == IF a < b THEN a ELSE b

\* the loop with the first rule applied to priority classes only
RECURSIVE FilterLoopNearPriorityOnly(_, _)
FilterLoopNearPriorityOnly(dets, rel) ==
    IF dets = <<>> THEN rel
    ELSE LET det == Head(dets)
         IN  IF det.distance < 20 /\ det.class \in priority_classes
             THEN FilterLoopNearPriorityOnly(Tail(dets),
                             Append(rel, [det EXCEPT !.priority = "alta"]))
             ELSE IF det.class \in priority_classes /\ det.distance < 50
             THEN FilterLoopNearPriorityOnly(Tail(dets),
                             Append(rel, [det EXCEPT !.priority = "media"]))
             ELSE IF det.position = "frente" /\ det.distance < 40
             THEN FilterLoopNearPriorityOnly(Tail(dets),
                             Append(rel, [det EXCEPT !.priority = "media"]))
             ELSE FilterLoopNearPriorityOnly(Tail(dets), rel)

\* the loop with the third rule's bound included (distance <= 4.0)
RECURSIVE FilterLoopFrontInclusive(_, _)
FilterLoopFrontInclusive(dets, rel) ==
    IF dets = <<>> THEN rel
    ELSE LET det == Head(dets)
         IN  IF det.distance < 20
             THEN FilterLoopFrontInclusive(Tail(dets),
                             Append(rel, [det EXCEPT !.priority = "alta"]))
             ELSE IF det.class \in priority_classes /\ det.distance < 50
             THEN FilterLoopFrontInclusive(Tail(dets),
                             Append(rel, [det EXCEPT !.priority = "media"]))
             ELSE IF det.position = "frente" /\ det.distance <= 40
             THEN FilterLoopFrontInclusive(Tail(dets),
                             Append(rel, [det EXCEPT !.priority = "media"]))
             ELSE FilterLoopFrontInclusive(Tail(dets), rel)

\* the loop of ObjectDetector.filter_relevant, lines 103-122
RECURSIVE FilterLoop(_, _)
FilterLoop(dets, rel) ==
    IF dets = <<>> THEN rel
    ELSE LET det == Head(dets)
         IN  IF det.distance < 20
             THEN FilterLoop(Tail(dets),
                             Append(rel, [det EXCEPT !.priority = "alta"]))
             ELSE IF det.class \in priority_classes /\ det.distance < 50
             THEN FilterLoop(Tail(dets),
                             Append(rel, [det EXCEPT !.priority = "media"]))
             ELSE IF det.position = "frente" /\ det.distance < 40
             THEN FilterLoop(Tail(dets),
                             Append(rel, [det EXCEPT !.priority = "media"]))
             ELSE FilterLoop(Tail(dets), rel)

\* ObjectDetector.filter_relevant: relevant[:5]
filter_relevant(dets) ==
    LET rel == FilterLoop(dets, <<>>)
    IN  SubSeq(rel, 1, Min(5, Len(rel)))

\* filter_relevant writes det['priority'] into the dicts of the input list
Marked(dets, rel) ==
    [i \in 1..Len(dets) |->
        IF \E k \in 1..Len(rel) : rel[k].id = dets[i].id
        THEN LET k == CHOOSE k \in 1..Len(rel) : rel[k].id = dets[i].id
             IN  rel[k]
        ELSE dets[i]]

----------------------------------------------------------------------------
(* AudioFeedback: core/audio_feedback.py *)

\* AudioConfig.enable_vibration (load_config is never called: the default)
enable_vibration == TRUE

\* a string that is no string: None
None == [none |-> TRUE, text |-> <<>>]
Str(t) == [none |-> FALSE, text |-> t]

\* the greeting VisualAssistant.start speaks before the main loop runs
Greeting == <<"Asistente visual activado. Apunta la cámara hacia adelante.">>

\* AudioFeedback.__init__: empty queue, enabled
InitAudio ==
    /\ enabled = TRUE
    /\ audio_queue = <<>>

\* AudioFeedback.speak: the queue after the call (a message's 'timestamp' is
\* written and never read: left out)
speak(q, text, priority, interrupt) ==
    IF ~enabled \/ text = <<>>
    THEN q
    ELSE Append(IF priority = "alta" \/ interrupt THEN <<>> ELSE q,
                [text |-> text, priority |-> priority])

\* AudioFeedback.play_alert: the arguments of winsound.Beep
play_alert(alert_type) ==
    IF alert_type = "danger" THEN <<1000, 200>> ELSE <<800, 100>>

\* AudioFeedback.vibrate (duration 0.2): what the vibrator is given
vibrate(pattern) ==
    IF ~enable_vibration THEN <<>>
    ELSE IF pattern = "single" THEN <<200>>
    ELSE IF pattern = "double" THEN <<0, 200, 100, 200>>
    ELSE IF pattern = "continuous" THEN <<0, 300, 200, 300, 200, 300>>
    ELSE <<>>

\* AudioFeedback._audio_loop: the worker takes the head of the queue and
\* plays it
_audio_loop ==
    /\ audio_queue # <<>>
    /\ audio_queue' = Tail(audio_queue)
    /\ UNCHANGED <<extVars, filterVars, clock, enabled, proxVars, descVars>>

\* time passes
Advance ==
    /\ clock < StartTime + Horizon
    /\ clock' = clock + 1
    /\ UNCHANGED <<extVars, filterVars, audioVars, proxVars, descVars>>

----------------------------------------------------------------------------
(* ProximityAlertSystem: core/audio_feedback.py *)

\* ProximityAlertSystem.alert_distances, tenths of a metre
alert_distance_critical == 10
alert_distance_warning == 20

\* ProximityAlertSystem.alert_cooldown, seconds
alert_cooldown == 3

NoLevel == "none"
NoSpeech == [text |-> <<>>, priority |-> "", interrupt |-> FALSE]

InitProx ==
    /\ last_alert_time = <<>>
    /\ checked = <<>>
    /\ emitted = <<>>
    /\ alert_log = <<>>

\* critical up to and including 1.0 m
alert_level_inclusive(distance) ==
    IF distance <= alert_distance_critical THEN "critical"
    ELSE IF distance < alert_distance_warning THEN "warning"
    ELSE NoLevel

\* check_proximity lines 263-268
alert_level(distance) ==
    IF distance < alert_distance_critical THEN "critical"
    ELSE IF distance < alert_distance_warning THEN "warning"
    ELSE NoLevel

\* the cooldown cut short by one second
in_cooldown_short(lat, obj_class, current_time) ==
    LET last_time == IF obj_class \in DOMAIN lat THEN lat[obj_class] ELSE 0
    IN  current_time - last_time < alert_cooldown - 1

\* check_proximity lines 273-276: last_alert_time.get(obj_class, 0)
in_cooldown(lat, obj_class, current_time) ==
    LET last_time == IF obj_class \in DOMAIN lat THEN lat[obj_class] ELSE 0
    IN  current_time - last_time < alert_cooldown

\* the warning branch speaking as well
_emit_alert_warning_speaks(det, level) ==
    [id |-> det.id, class |-> det.class, distance |-> det.distance,
     level |-> level,
     tone |-> play_alert(IF level = "critical" THEN "danger" ELSE "warning"),
     vibration |-> vibrate(IF level = "critical" THEN "double" ELSE "single"),
     speech |-> [text |-> <<"Cuidado, ", det.class, " muy cerca">>,
                 priority |-> "alta", interrupt |-> TRUE]]

\* ProximityAlertSystem._emit_alert: the calls it makes on the audio system
_emit_alert(det, level) ==
    IF level = "critical"
    THEN [id |-> det.id, class |-> det.class, distance |-> det.distance,
          level |-> level,
          tone |-> play_alert("danger"),
          vibration |-> vibrate("double"),
          speech |-> [text |-> <<"Cuidado, ", det.class, " muy cerca">>,
                      priority |-> "alta", interrupt |-> TRUE]]
    ELSE IF level = "warning"
    THEN [id |-> det.id, class |-> det.class, distance |-> det.distance,
          level |-> level,
          tone |-> play_alert("warning"),
          vibration |-> vibrate("single"),
          speech |-> NoSpeech]
    ELSE [id |-> det.id, class |-> det.class, distance |-> det.distance,
          level |-> level, tone |-> <<>>, vibration |-> <<>>,
          speech |-> NoSpeech]

\* the loop of check_proximity over the detections left, with the dict, the
\* emissions and the audio queue so far
RECURSIVE ProxLoop(_, _, _)
ProxLoop(dets, current_time, st) ==
    IF dets = <<>> THEN st
    ELSE LET det   == Head(dets)
             level == alert_level(det.distance)
         IN  IF level = NoLevel
             THEN ProxLoop(Tail(dets), current_time, st)
             ELSE IF in_cooldown(st.lat, det.class, current_time)
             THEN ProxLoop(Tail(dets), current_time, st)
             ELSE LET e == _emit_alert(det, level)
                  IN  ProxLoop(Tail(dets), current_time,
                        [lat |-> (det.class :> current_time) @@ st.lat,
                         out |-> Append(st.out, e),
                         q   |-> IF e.speech = NoSpeech THEN st.q
                                 ELSE speak(st.q, e.speech.text,
                                            e.speech.priority,
                                            e.speech.interrupt)])

\* the history of alerts with the emissions of one call added (the history
\* is kept for the properties; the program has only last_alert_time)
RECURSIVE Logged(_, _, _)
Logged(log, out, at) ==
    IF out = <<>> THEN log
    ELSE LET e    == Head(out)
             sofar == IF e.class \in DOMAIN log THEN log[e.class] ELSE <<>>
         IN  Logged((e.class :> Append(sofar, [level |-> e.level, at |-> at]))
                        @@ log,
                    Tail(out), at)

\* ProximityAlertSystem.check_proximity(dets) at time.time() = clock
check_proximity(dets) ==
    LET st == ProxLoop(dets, clock,
                       [lat |-> last_alert_time, out |-> <<>>,
                        q |-> audio_queue])
    IN  /\ last_alert_time' = st.lat
        /\ audio_queue' = st.q
        /\ checked' = dets
        /\ emitted' = st.out
        /\ alert_log' = Logged(alert_log, st.out, clock)

----------------------------------------------------------------------------
(* LanguageProcessor and AdaptiveLanguageProcessor:                        *)
(* core/language_processor.py.  The text the service answers is a sequence *)
(* of characters; a fallback sentence is a sequence of its pieces.         *)

\* PerformanceConfig.min_time_between_descriptions, seconds
min_time_between_descriptions == 2

\* AdaptiveLanguageProcessor.danger_threshold, tenths of a metre
danger_threshold == 20

\* what the POST to /api/generate comes to: an answer with status 200 and a
\* text, another status, a timeout, any other exception
Responses ==
    { <<"C", "u", "i", "d", "a", "d", "o", ".">>, <<" ", "*", "#">> }

Outcomes ==
    { [kind |-> "ok", text |-> t] : t \in Responses } \cup
    { [kind |-> k, text |-> <<>>] : k \in {"status", "timeout", "error"} }

\* this tick has not called generate_description
NoCall ==
    [called |-> FALSE, elapsed |-> 0, result |-> None, service |-> "idle"]

InitDesc ==
    /\ lp_last_description_time = 0
    /\ last_description_time = 0
    /\ lp_call = NoCall

Whitespace == {" ", "\n", "\t"}

\* str.strip
RECURSIVE lstrip(_)
lstrip(t) ==
    IF t # <<>> /\ Head(t) \in Whitespace THEN lstrip(Tail(t)) ELSE t

RECURSIVE rstrip(_)
rstrip(t) ==
    IF t # <<>> /\ t[Len(t)] \in Whitespace
    THEN rstrip(SubSeq(t, 1, Len(t) - 1))
    ELSE t

strip(t) == rstrip(lstrip(t))

\* str.replace(ch, '')
RECURSIVE remove(_, _)
remove(t, ch) ==
    IF t = <<>> THEN <<>>
    ELSE IF Head(t) = ch THEN remove(Tail(t), ch)
    ELSE <<Head(t)>> \o remove(Tail(t), ch)

\* text.rsplit('.', 1)[0]
rsplit_dot(t) ==
    IF \E i \in 1..Len(t) : t[i] = "."
    THEN LET i == CHOOSE i \in 1..Len(t) :
                     t[i] = "." /\ \A j \in (i + 1)..Len(t) : t[j] # "."
         IN  SubSeq(t, 1, i - 1)
    ELSE t

\* LanguageProcessor._clean_description
_clean_description(text) ==
    LET t == strip(remove(remove(text, "*"), "#"))
    IN  IF Len(t) > 200
        THEN rsplit_dot(SubSeq(t, 1, 200)) \o <<".">>
        ELSE t

\* LanguageProcessor._translate_class
_translate_class(class_name) ==
    CASE class_name = "person" -> "persona"
      [] class_name = "car" -> "auto"
      [] class_name = "truck" -> "camión"
      [] class_name = "bicycle" -> "bicicleta"
      [] class_name = "motorcycle" -> "motocicleta"
      [] class_name = "bus" -> "autobús"
      [] class_name = "chair" -> "silla"
      [] class_name = "door" -> "puerta"
      [] class_name = "stairs" -> "escaleras"
      [] class_name = "bench" -> "banco"
      [] class_name = "bottle" -> "botella"
      [] class_name = "cup" -> "taza"
      [] class_name = "fork" -> "tenedor"
      [] class_name = "knife" -> "cuchillo"
      [] class_name = "cell phone" -> "teléfono"
      [] class_name = "laptop" -> "computadora"
      [] class_name = "dog" -> "perro"
      [] class_name = "cat" -> "gato"
      [] class_name = "tree" -> "árbol"
      [] OTHER -> class_name

\* the sentence f"{obj_es} {urgencia} ..." of an object
Sentence(obj) ==
    LET obj_es   == _translate_class(obj.class)
        urgencia == IF obj.distance < 15 THEN <<"muy cerca">>
                    ELSE IF obj.distance < 30 THEN <<"cerca">>
                    ELSE <<>>
    IN  IF obj.position = "frente"
        THEN <<obj_es, " ">> \o urgencia \o <<" frente a ti">>
        ELSE <<obj_es, " ">> \o urgencia \o <<" a tu ", obj.position>>

\* the fallback built from the last detection of the list
_fallback_description_last(dets) ==
    IF dets = <<>> THEN <<"Camino despejado">>
    ELSE Sentence(dets[Len(dets)])

\* LanguageProcessor._fallback_description
_fallback_description(dets) ==
    IF dets = <<>> THEN <<"Camino despejado">>
    ELSE Sentence(dets[1])

\* LanguageProcessor.generate_description: what it returns and whether it
\* posted to the service
generate_description(dets, outcome) ==
    IF dets = <<>>
    THEN [result |-> Str(<<"Camino despejado">>), service |-> "idle"]
    ELSE IF outcome.kind = "ok"
    THEN [result |-> Str(_clean_description(strip(outcome.text))),
          service |-> "ok"]
    ELSE [result |-> Str(_fallback_description(dets)),
          service |-> outcome.kind]

\* any(d['distance'] < self.danger_threshold for d in detections)
has_danger(dets) ==
    \E i \in 1..Len(dets) : dets[i].distance < danger_threshold

\* the throttle applied in danger too
adaptive_no_bypass(dets, current_time, last, outcome) ==
    IF current_time - last < min_time_between_descriptions
    THEN [called |-> TRUE, elapsed |-> current_time - last,
          result |-> None, service |-> "idle", last |-> last]
    ELSE LET g == generate_description(dets, outcome)
         IN  [called |-> TRUE, elapsed |-> current_time - last,
              result |-> g.result, service |-> g.service,
              last |-> current_time]

\* last_description_time stamped before the interval is tested
adaptive_stamp_first(dets, current_time, last, outcome) ==
    IF has_danger(dets)
    THEN LET g == generate_description(dets, outcome)
         IN  [called |-> TRUE, elapsed |-> current_time - last,
              result |-> g.result, service |-> g.service,
              last |-> current_time]
    ELSE IF current_time - last < min_time_between_descriptions
    THEN [called |-> TRUE, elapsed |-> current_time - last,
          result |-> None, service |-> "idle", last |-> current_time]
    ELSE LET g == generate_description(dets, outcome)
         IN  [called |-> TRUE, elapsed |-> current_time - last,
              result |-> g.result, service |-> g.service,
              last |-> current_time]

\* AdaptiveLanguageProcessor.generate_description at current_time, with
\* last = self.last_description_time: the call's record and the new
\* last_description_time
adaptive_generate_description(dets, current_time, last, outcome) ==
    IF has_danger(dets)
    THEN LET g == generate_description(dets, outcome)
         IN  [called |-> TRUE, elapsed |-> current_time - last,
              result |-> g.result, service |-> g.service,
              last |-> current_time]
    ELSE IF current_time - last < min_time_between_descriptions
    THEN [called |-> TRUE, elapsed |-> current_time - last,
          result |-> None, service |-> "idle", last |-> last]
    ELSE LET g == generate_description(dets, outcome)
         IN  [called |-> TRUE, elapsed |-> current_time - last,
              result |-> g.result, service |-> g.service,
              last |-> current_time]

\* "if description:" -- neither None nor ''
Truthy(result) == ~result.none /\ result.text # <<>>

----------------------------------------------------------------------------
\* the pipeline at rest, for the specifications of the other components
InitCore ==
    /\ pc = "idle"
    /\ frame = <<>>
    /\ detections = <<>>
    /\ relevant = <<>>
    /\ clock = StartTime
    /\ InitAudio
    /\ InitProx
    /\ InitDesc

----------------------------------------------------------------------------
(* CameraHandler: core/camera_handler.py.  Frames are numbered in the      *)
(* order cap.read() delivers them; the FPS statistics are left out.        *)

\* config.camera.frame_buffer_size, the maxsize of frame_queue
frame_buffer_size == 10

\* most frames cap.read() delivers in a run of the model
MaxCaptured == 12

\* read() returned None, or has not been called
NoFrame == 0

\* the handler after start(): running, the capture thread at its loop test
InitCamera ==
    /\ running = TRUE
    /\ frame_queue = <<>>
    /\ capture_pc = "while"
    /\ processed_frame = NoFrame
    /\ captured = 0
    /\ stop_pc = "idle"
    /\ read_pc = "idle"
    /\ read_result = NoFrame


\* Queue.full() with more than maxsize items only
full_above(q) == Len(q) > frame_buffer_size

\* Queue.full()
full(q) == Len(q) >= frame_buffer_size

\* line 61: the loop test of the capture thread
capture_while ==
    /\ capture_pc = "while"
    /\ capture_pc' = IF running THEN "read" ELSE "done"
    /\ UNCHANGED nonCamVars
    /\ UNCHANGED <<running, frame_queue, processed_frame, captured,
                   stop_pc, read_pc, read_result>>

\* lines 62-76: the interval has passed and cap.read() delivers a frame, or
\* it does not (ret is False) and the loop goes on
capture_read ==
    /\ capture_pc = "read"
    /\ \/ /\ captured < MaxCaptured
          /\ captured' = captured + 1
          /\ processed_frame' = captured + 1
          /\ capture_pc' = "full"
       \/ /\ capture_pc' = "while"
          /\ UNCHANGED <<processed_frame, captured>>
    /\ UNCHANGED nonCamVars
    /\ UNCHANGED <<running, frame_queue, stop_pc, read_pc, read_result>>

\* line 79: the test of frame_queue.full()
capture_full ==
    /\ capture_pc = "full"
    /\ capture_pc' = IF full(frame_queue) THEN "dropped" ELSE "put"
    /\ UNCHANGED nonCamVars
    /\ UNCHANGED <<running, frame_queue, processed_frame, captured,
                   stop_pc, read_pc, read_result>>

\* line 80: frame_queue.put, which blocks while the queue is full
capture_put ==
    /\ capture_pc = "put"
    /\ Len(frame_queue) < frame_buffer_size
    /\ frame_queue' = Append(frame_queue, processed_frame)
    /\ capture_pc' = "stored"
    /\ UNCHANGED nonCamVars
    /\ UNCHANGED <<running, processed_frame, captured, stop_pc, read_pc,
                   read_result>>

\* lines 82-89: the end of the iteration, the frame is let go
capture_next ==
    /\ capture_pc \in {"dropped", "stored"}
    /\ capture_pc' = "while"
    /\ processed_frame' = NoFrame
    /\ UNCHANGED nonCamVars
    /\ UNCHANGED <<running, frame_queue, captured, stop_pc, read_pc,
                   read_result>>

\* CameraHandler.read, lines 103-105, called by the main loop
read ==
    /\ read_pc = "idle"
    /\ stop_pc = "idle"
    /\ IF frame_queue = <<>>
       THEN /\ read_result' = NoFrame
            /\ UNCHANGED frame_queue
       ELSE /\ read_result' = Head(frame_queue)
            /\ frame_queue' = Tail(frame_queue)
    /\ read_pc' = "returned"
    /\ UNCHANGED nonCamVars
    /\ UNCHANGED <<running, capture_pc, processed_frame, captured, stop_pc>>

\* the main loop is done with the frame
read_done ==
    /\ read_pc = "returned"
    /\ read_pc' = "idle"
    /\ read_result' = NoFrame
    /\ UNCHANGED nonCamVars
    /\ UNCHANGED <<running, frame_queue, capture_pc, processed_frame,
                   captured, stop_pc>>

\* CameraHandler.stop, line 113
stop_flag ==
    /\ stop_pc = "idle"
    /\ read_pc = "idle"
    /\ running' = FALSE
    /\ stop_pc' = "join"
    /\ UNCHANGED nonCamVars
    /\ UNCHANGED <<frame_queue, capture_pc, processed_frame, captured,
                   read_pc, read_result>>

\* capture_thread.join(timeout=2) returns: the thread has ended, or the two
\* seconds have passed
join(thread_pc, timed_out) == thread_pc = "done" \/ timed_out

\* lines 114-118: join returns, the capture is released, stop returns
stop_join ==
    /\ stop_pc = "join"
    /\ \E timed_out \in BOOLEAN : join(capture_pc, timed_out)
    /\ stop_pc' = "returned"
    /\ UNCHANGED nonCamVars
    /\ UNCHANGED <<running, frame_queue, capture_pc, processed_frame,
                   captured, read_pc, read_result>>

----------------------------------------------------------------------------
(* BatteryOptimizer: utils/battery_optimizer.py *)

\* the battery levels update_battery_status is given, in percent
Levels == 0..100

\* BatteryOptimizer.thresholds
thresholds ==
    [ultra_saver |-> 10, power_saver |-> 20, balanced |-> 50,
     performance |-> 80]

\* BatteryOptimizer.__init__
InitBattery ==
    /\ current_mode = "balanced"
    /\ battery_level = 100
    /\ is_charging = FALSE
    /\ battery_updates = 0

\* _switch_mode: the mode after the call
_switch_mode(mode, new_mode) == IF new_mode # mode THEN new_mode ELSE mode

\* the table with the thresholds themselves on the upper side
select_mode_exclusive(level, charging) ==
    IF charging THEN "performance"
    ELSE IF level < thresholds.ultra_saver THEN "ultra_saver"
    ELSE IF level < thresholds.power_saver THEN "power_saver"
    ELSE IF level < thresholds.balanced THEN "balanced"
    ELSE "performance"

\* update_battery_status, lines 101-114: the mode handed to _switch_mode
select_mode(level, charging) ==
    IF charging THEN "performance"
    ELSE IF level <= thresholds.ultra_saver THEN "ultra_saver"
    ELSE IF level <= thresholds.power_saver THEN "power_saver"
    ELSE IF level <= thresholds.balanced THEN "balanced"
    ELSE "performance"

\* update_battery_status(level, is_charging), lines 98-114
update_battery_status_to(level, charging) ==
    /\ battery_level' = level
    /\ is_charging' = charging
    /\ current_mode' = _switch_mode(current_mode,
                                    select_mode(level, charging))
    /\ battery_updates' = IF battery_updates = 0 THEN 1 ELSE 2
    /\ UNCHANGED <<coreVars, camVars, workerVars, cfgVars, moreVars>>

update_battery_status ==
    \E level \in Levels, charging \in BOOLEAN :
        update_battery_status_to(level, charging)

----------------------------------------------------------------------------
(* AudioFeedback, thread by thread: speak as its callers run it, line by   *)
(* line, and _audio_loop as the audio thread runs it.  The engine is there *)
(* (_init_tts succeeded).                                                  *)

\* most audio_queue.put calls in a run of the model
MaxSpoken == 3

\* the threads that call speak
Callers == {"main", "other"}

\* a second thread started on _audio_loop
audio_threads_two == {"audio_thread", "audio_thread_2"}

\* AudioFeedback.__init__, lines 23-24: the one thread running _audio_loop
audio_threads == {"audio_thread"}

\* the text of the n-th utterance put on the queue
Text(n) == <<ToString(n)>>

\* the audio thread holds no message
NoMessage == [text |-> <<>>, priority |-> "none"]

\* the texts pending in the queue q
Pending(q) == { q[i].text : i \in 1..Len(q) }

InitWorker ==
    /\ worker_pc = [w \in audio_threads |-> "get"]
    /\ message = [w \in audio_threads |-> NoMessage]
    /\ playing = {}
    /\ played = {}
    /\ failed = {}
    /\ speak_pc = [c \in Callers |-> "idle"]
    /\ speak_priority = [c \in Callers |-> "none"]
    /\ pending_before = [c \in Callers |-> {}]
    /\ interrupted = {}
    /\ after_error = {}
    /\ puts = 0


\* the calls of speak under way
InSpeak == {c \in Callers : speak_pc[c] # "idle"}

\* speak, lines 63-67: nothing to do, or on to the clearing loop, or to put
speak_call(c) ==
    /\ speak_pc[c] = "idle"
    /\ puts + Cardinality(InSpeak) < MaxSpoken
    /\ \E text \in {<<>>, <<"text">>}, priority \in {"alta", "normal"},
          interrupt \in BOOLEAN :
          IF ~enabled \/ text = <<>>
          THEN UNCHANGED <<speak_pc, speak_priority, pending_before>>
          ELSE /\ speak_pc' = [speak_pc EXCEPT ![c] =
                     IF priority = "alta" \/ interrupt THEN "clear"
                     ELSE "put"]
               /\ speak_priority' = [speak_priority EXCEPT ![c] = priority]
               /\ pending_before' = [pending_before EXCEPT ![c] =
                     IF priority = "alta" \/ interrupt
                     THEN Pending(audio_queue) ELSE {}]
    /\ UNCHANGED nonSpeechVars
    /\ UNCHANGED <<audio_queue, worker_pc, message, playing, played, failed,
                   interrupted, after_error, puts>>

\* lines 68-72: one turn of the clearing loop
speak_clear(c) ==
    /\ speak_pc[c] = "clear"
    /\ IF audio_queue = <<>>
       THEN /\ speak_pc' = [speak_pc EXCEPT ![c] = "put"]
            /\ UNCHANGED audio_queue
       ELSE /\ audio_queue' = Tail(audio_queue)
            /\ UNCHANGED speak_pc
    /\ UNCHANGED nonSpeechVars
    /\ UNCHANGED <<worker_pc, message, playing, played, failed,
                   speak_priority, pending_before, interrupted, after_error,
                   puts>>

\* lines 75-79: audio_queue.put, and the call returns
speak_put(c) ==
    /\ speak_pc[c] = "put"
    /\ audio_queue' = Append(audio_queue,
           [text |-> Text(puts + 1), priority |-> speak_priority[c]])
    /\ puts' = puts + 1
    /\ interrupted' = interrupted \cup pending_before[c]
    /\ after_error' = IF failed = {} THEN after_error
                      ELSE after_error \cup {Text(puts + 1)}
    /\ speak_pc' = [speak_pc EXCEPT ![c] = "idle"]
    /\ speak_priority' = [speak_priority EXCEPT ![c] = "none"]
    /\ pending_before' = [pending_before EXCEPT ![c] = {}]
    /\ UNCHANGED nonSpeechVars
    /\ UNCHANGED <<worker_pc, message, playing, played, failed>>

\* _audio_loop, line 86: audio_queue.get() returns the head
worker_get(w) ==
    /\ worker_pc[w] = "get"
    /\ audio_queue # <<>>
    /\ message' = [message EXCEPT ![w] = Head(audio_queue)]
    /\ audio_queue' = Tail(audio_queue)
    /\ worker_pc' = [worker_pc EXCEPT ![w] = "say"]
    /\ UNCHANGED nonSpeechVars
    /\ UNCHANGED <<playing, played, failed, speak_pc, speak_priority,
                   pending_before, interrupted, after_error, puts>>

\* lines 88-96: the message is skipped while audio is off, else the engine
\* starts on its text
worker_say(w) ==
    /\ worker_pc[w] = "say"
    /\ IF ~enabled
       THEN /\ worker_pc' = [worker_pc EXCEPT ![w] = "get"]
            /\ message' = [message EXCEPT ![w] = NoMessage]
            /\ UNCHANGED playing
       ELSE /\ worker_pc' = [worker_pc EXCEPT ![w] = "runAndWait"]
            /\ playing' = playing \cup {message[w].text}
            /\ UNCHANGED message
    /\ UNCHANGED nonSpeechVars
    /\ UNCHANGED <<audio_queue, played, failed, speak_pc, speak_priority,
                   pending_before, interrupted, after_error, puts>>

\* lines 97-98: runAndWait returns, the utterance has been played
worker_done(w) ==
    /\ worker_pc[w] = "runAndWait"
    /\ playing' = playing \ {message[w].text}
    /\ played' = played \cup {message[w].text}
    /\ message' = [message EXCEPT ![w] = NoMessage]
    /\ worker_pc' = [worker_pc EXCEPT ![w] = "get"]
    /\ UNCHANGED nonSpeechVars
    /\ UNCHANGED <<audio_queue, failed, speak_pc, speak_priority,
                   pending_before, interrupted, after_error, puts>>

\* the exception ends the thread
uncaught == "dead"

\* line 100: the exception is caught inside the loop
except == "except"

\* lines 96-97: the engine raises
worker_raise(w) ==
    /\ worker_pc[w] = "runAndWait"
    /\ playing' = playing \ {message[w].text}
    /\ failed' = failed \cup {message[w].text}
    /\ message' = [message EXCEPT ![w] = NoMessage]
    /\ worker_pc' = [worker_pc EXCEPT ![w] = except]
    /\ UNCHANGED nonSpeechVars
    /\ UNCHANGED <<audio_queue, played, speak_pc, speak_priority,
                   pending_before, interrupted, after_error, puts>>

\* lines 101-103: speaking is cleared, a short sleep, the loop goes on
worker_except(w) ==
    /\ worker_pc[w] = "except"
    /\ worker_pc' = [worker_pc EXCEPT ![w] = "get"]
    /\ UNCHANGED nonSpeechVars
    /\ UNCHANGED <<audio_queue, message, playing, played, failed, speak_pc,
                   speak_priority, pending_before, interrupted, after_error,
                   puts>>

\* AudioFeedback.speaking, as the audio threads set and clear it
speaking == \E w \in audio_threads : worker_pc[w] = "runAndWait"

----------------------------------------------------------------------------
(* load_config: app/config.py.  Of AppConfig the model keeps one field of  *)
(* the camera, audio and performance sections; a section of the file is    *)
(* absent, a mapping that sets the field, or something that is no mapping  *)
(* (its .items() raises).                                                  *)

\* CameraConfig.fps_processing and AudioConfig.rate as the dataclasses set
\* them
fps_processing == 5
rate == 180

\* AppConfig(): the defaults
AppConfig ==
    [fps_processing |-> fps_processing, rate |-> rate,
     min_time_between_descriptions |-> min_time_between_descriptions]

\* the values a file gives to the fields
FileValues ==
    [camera |-> {3, 10}, audio |-> {150}, performance |-> {1}]

Absent == [kind |-> "absent", value |-> 0]

Sections(name) ==
    {Absent, [kind |-> "other", value |-> 0]} \cup
    { [kind |-> "mapping", value |-> v] : v \in FileValues[name] }

\* no file, or the three sections of the file
NoFile == [found |-> FALSE, camera |-> Absent, audio |-> Absent,
           performance |-> Absent]

Files ==
    {NoFile} \cup
    [found : {TRUE}, camera : Sections("camera"), audio : Sections("audio"),
     performance : Sections("performance")]

NoConfig == [fps_processing |-> 0, rate |-> 0,
             min_time_between_descriptions |-> 0]

InitConfig ==
    /\ config = AppConfig
    /\ load_pc = "idle"
    /\ data = NoFile
    /\ load_result = NoConfig
    /\ load_outcome = "none"

\* lines 140-170: the call ends in one of the except branches
raises(d) ==
    \/ ~d.found
    \/ d.camera.kind = "other"
    \/ d.audio.kind = "other"
    \/ d.performance.kind = "other"

\* lines 147-165: setattr for the sections of the file, as far as they go
apply_sections(cfg, d) ==
    LET c1 == IF d.camera.kind = "mapping"
              THEN [cfg EXCEPT !.fps_processing = d.camera.value] ELSE cfg
        c2 == IF d.camera.kind # "other" /\ d.audio.kind = "mapping"
              THEN [c1 EXCEPT !.rate = d.audio.value] ELSE c1
        c3 == IF d.camera.kind # "other" /\ d.audio.kind # "other"
                 /\ d.performance.kind = "mapping"
              THEN [c2 EXCEPT !.min_time_between_descriptions =
                                   d.performance.value]
              ELSE c2
    IN  c3

\* lines 140-142: the file is opened and parsed, or open raises
load_open ==
    /\ load_pc = "idle"
    /\ \E d \in Files : data' = d
    /\ load_pc' = "opened"
    /\ load_result' = NoConfig
    /\ load_outcome' = "none"
    /\ UNCHANGED config
    /\ UNCHANGED <<coreVars, camVars, workerVars, battVars, moreVars>>

\* lines 145-180: the rest of load_config
load_config ==
    /\ load_pc = "opened"
    /\ IF raises(data)
       THEN /\ load_result' = config
            /\ load_outcome' = "failed"
            /\ UNCHANGED config
       ELSE /\ config' = apply_sections(AppConfig, data)
            /\ load_result' = apply_sections(AppConfig, data)
            /\ load_outcome' = "loaded"
    /\ load_pc' = "idle"
    /\ UNCHANGED data
    /\ UNCHANGED <<coreVars, camVars, workerVars, battVars, moreVars>>

----------------------------------------------------------------------------
(* AudioModule of the dashboard variant: kimi/modules/audio_module.py.     *)
(* message_queue is a queue.Queue: its mutex is a threading.Lock, which    *)
(* is not reentrant, and put and get take it themselves.  The texts are    *)
(* at most 200 characters long (line 56 splits longer ones).               *)

\* the calls of AudioModule.speak of a run
MaxSpeakCalls == 3

\* the calls of start_assistant that start threads
MaxStarts == 2

\* the threads of analyze_frames, one for each such call
ThreadNames == <<"analysis_1", "analysis_2", "analysis_3", "analysis_4">>
analysis_thread(g) == ThreadNames[g]

\* the threads that call speak: the script thread (start_assistant,
\* stop_assistant) and the analysis threads (analyze_frames)
ModuleCallers == {"main"} \cup {analysis_thread(g) : g \in 1..MaxStarts}

\* the texts speak is given
ModuleTexts == {<<>>, <<" ">>, <<"a">>, <<"b">>}

\* what the state outside AudioModule is
nonModuleVars == <<claudeVars, dbVars, dashVars, laterVars>>

\* AudioModule.__init__, lines 25-31
InitModule ==
    /\ message_queue = <<>>
    /\ mutex = "free"
    /\ module_pc = [c \in ModuleCallers |-> "idle"]
    /\ module_text = [c \in ModuleCallers |-> <<>>]
    /\ module_priority = [c \in ModuleCallers |-> FALSE]
    /\ temp_list = [c \in ModuleCallers |-> <<>>]
    /\ pending_at_call = [c \in ModuleCallers |-> <<>>]
    /\ speech_pc = "get"
    /\ speech_text = <<>>
    /\ is_speaking = FALSE
    /\ speak_calls = 0

\* line 35: text and text.strip()
speakable(text) == text # <<>> /\ strip(text) # <<>>

\* lines 35-39: the call and the tests; with priority the snapshot of the
\* queue, taken before the mutex, with the text put in front.  Without
\* priority temp_list holds the one text that line 45 puts.
module_call(c, text, priority) ==
    /\ module_pc[c] = "idle"
    /\ module_text' = [module_text EXCEPT ![c] = text]
    /\ module_priority' = [module_priority EXCEPT ![c] = priority]
    /\ pending_at_call' = [pending_at_call EXCEPT ![c] = message_queue]
    /\ speak_calls' = speak_calls + 1
    /\ IF speakable(text)
       THEN IF priority
            THEN /\ temp_list' =
                        [temp_list EXCEPT ![c] = <<text>> \o message_queue]
                 /\ module_pc' = [module_pc EXCEPT ![c] = "with"]
            ELSE /\ temp_list' = [temp_list EXCEPT ![c] = <<text>>]
                 /\ module_pc' = [module_pc EXCEPT ![c] = "put"]
       ELSE /\ module_pc' = [module_pc EXCEPT ![c] = "returned"]
            /\ UNCHANGED temp_list
    /\ UNCHANGED <<message_queue, mutex, speech_pc, speech_text,
                   is_speaking>>

\* AudioModule.speak, called by c
module_speak(c) ==
    /\ speak_calls < MaxSpeakCalls
    /\ \E text \in ModuleTexts, priority \in BOOLEAN :
           module_call(c, text, priority)
    /\ UNCHANGED nonModuleVars

\* line 40: with self.message_queue.mutex
module_with(c) ==
    /\ module_pc[c] = "with"
    /\ mutex = "free"
    /\ mutex' = c
    /\ module_pc' = [module_pc EXCEPT ![c] = "clear"]
    /\ UNCHANGED <<message_queue, module_text, module_priority, temp_list,
                   pending_at_call, speech_pc, speech_text, is_speaking,
                   speak_calls>>
    /\ UNCHANGED nonModuleVars

\* line 41: self.message_queue.queue.clear()
module_clear(c) ==
    /\ module_pc[c] = "clear"
    /\ message_queue' = <<>>
    /\ module_pc' = [module_pc EXCEPT ![c] = "put"]
    /\ UNCHANGED <<mutex, module_text, module_priority, temp_list,
                   pending_at_call, speech_pc, speech_text, is_speaking,
                   speak_calls>>
    /\ UNCHANGED nonModuleVars

\* Queue.put begins with `with self.not_full`, a Condition on the mutex:
\* the caller goes on once the mutex is free
put_enters(c) == mutex = "free"

\* lines 43 and 45: message_queue.put(item), and the end of the call after
\* the last item
module_put(c) ==
    /\ module_pc[c] = "put"
    /\ put_enters(c)
    /\ message_queue' = Append(message_queue, Head(temp_list[c]))
    /\ temp_list' = [temp_list EXCEPT ![c] = Tail(temp_list[c])]
    /\ mutex' = "free"
    /\ module_pc' = [module_pc EXCEPT ![c] =
                        IF Tail(temp_list[c]) = <<>> THEN "returned"
                        ELSE "put"]
    /\ UNCHANGED <<module_text, module_priority, pending_at_call, speech_pc,
                   speech_text, is_speaking, speak_calls>>
    /\ UNCHANGED nonModuleVars

\* speak(text) without priority in one step, lines 35 and 45: the put
\* waits for the mutex
speak_plain(text) ==
    /\ put_enters("anyone")
    /\ message_queue' = IF speakable(text) THEN Append(message_queue, text)
                        ELSE message_queue
    /\ UNCHANGED <<mutex, module_pc, module_text, module_priority,
                   temp_list, pending_at_call, speech_pc, speech_text,
                   is_speaking, speak_calls>>

\* the caller goes on after speak
module_return(c) ==
    /\ module_pc[c] = "returned"
    /\ module_pc' = [module_pc EXCEPT ![c] = "idle"]
    /\ UNCHANGED <<message_queue, mutex, module_text, module_priority,
                   temp_list, pending_at_call, speech_pc, speech_text,
                   is_speaking, speak_calls>>
    /\ UNCHANGED nonModuleVars

\* line 51: message_queue.get(timeout=1) takes the mutex as well; on an
\* empty queue it raises Empty after the second and the loop goes round
speech_get ==
    /\ speech_pc = "get"
    /\ mutex = "free"
    /\ message_queue # <<>>
    /\ speech_text' = Head(message_queue)
    /\ message_queue' = Tail(message_queue)
    /\ IF Head(message_queue) # <<>>
       THEN /\ is_speaking' = TRUE
            /\ speech_pc' = "say"
       ELSE UNCHANGED <<is_speaking, speech_pc>>
    /\ UNCHANGED <<mutex, module_pc, module_text, module_priority,
                   temp_list, pending_at_call, speak_calls>>
    /\ UNCHANGED nonModuleVars

\* lines 65-68 and 72-74: engine.say and runAndWait return or raise; either
\* way is_speaking is cleared and the loop goes round
speech_say ==
    /\ speech_pc = "say"
    /\ is_speaking' = FALSE
    /\ speech_pc' = "get"
    /\ UNCHANGED <<message_queue, mutex, module_pc, module_text,
                   module_priority, temp_list, pending_at_call, speech_text,
                   speak_calls>>
    /\ UNCHANGED nonModuleVars

----------------------------------------------------------------------------
(* DatabaseManager of the dashboard variant:                               *)
(* kimi/modules/database_manager.py.  A table is the sequence of its rows  *)
(* in the order of their insertion; a list of detections is the sequence   *)
(* of its objects' names.                                                  *)

\* the lists of detections and the descriptions save_detection is given
DetectionLists == {<<>>, <<"cup">>, <<"person">>, <<"cup", "person">>}
SavedDescriptions == {<<>>, <<"a">>, <<"b">>}

\* what the state outside DatabaseManager is
nonDbVars == <<claudeVars, moduleVars, dashVars, laterVars>>

\* no call yet
NoSave == [called |-> FALSE, detections |-> <<>>, description |-> <<>>,
           result |-> "None"]

NoLookup == [called |-> FALSE, detections |-> <<>>, result |-> "None"]

\* the calls of get_cached_description a run makes at most
MaxLookups == 3

\* _init_database on a new file: the tables are empty
InitDatabase ==
    /\ detections_table = <<>>
    /\ cached_descriptions = <<>>
    /\ save_call = NoSave
    /\ cache_call = NoLookup
    /\ lookups = 0

\* hashlib.sha256(...).hexdigest(): different texts, different digests
sha256(text) == <<"sha256", text>>

\* json.dumps of a list of detections
dumps(dets) == <<"json", dets>>

\* json.dumps(detections, sort_keys=True, default=str), lines 123 and 150:
\* the text the cache's key is the digest of
dumps_sort_keys(dets) == <<"json", "sort_keys", dets>>

\* lines 89-96: SELECT detection_id FROM detections WHERE description_hash
\* = ? has a row
fetchone_never(table, description_hash) == FALSE

fetchone(table, description_hash) ==
    \E i \in 1..Len(table) : table[i].description_hash = description_hash

\* lines 101-111, with description_hash TEXT UNIQUE of line 42 and
\* detection_id INTEGER PRIMARY KEY AUTOINCREMENT of line 38: the table
\* after the INSERT and lastrowid, or the IntegrityError
insert(table, dets, text) ==
    IF \E i \in 1..Len(table) : table[i].description_hash = sha256(text)
    THEN [table |-> table, result |-> "IntegrityError"]
    ELSE [table  |-> Append(table,
                        [detection_id     |-> Len(table) + 1,
                         objects_detected |-> dumps(dets),
                         description      |-> text,
                         description_hash |-> sha256(text)]),
          result |-> "id"]

\* _update_cache, lines 148-166: INSERT ... ON CONFLICT(objects_hash) DO
\* UPDATE SET usage_count = usage_count + 1
_update_cache_replacing(cache, dets, text) ==
    LET objects_hash == sha256(dumps_sort_keys(dets))
    IN  IF \E i \in 1..Len(cache) : cache[i].objects_hash = objects_hash
        THEN [i \in 1..Len(cache) |->
                 IF cache[i].objects_hash = objects_hash
                 THEN [cache[i] EXCEPT !.usage_count = @ + 1,
                                       !.description = text]
                 ELSE cache[i]]
        ELSE Append(cache, [objects_hash |-> objects_hash,
                            objects_data |-> dumps(dets),
                            description  |-> text,
                            usage_count  |-> 1])

_update_cache(cache, dets, text) ==
    LET objects_hash == sha256(dumps_sort_keys(dets))
    IN  IF \E i \in 1..Len(cache) : cache[i].objects_hash = objects_hash
        THEN [i \in 1..Len(cache) |->
                 IF cache[i].objects_hash = objects_hash
                 THEN [cache[i] EXCEPT !.usage_count = @ + 1]
                 ELSE cache[i]]
        ELSE Append(cache, [objects_hash |-> objects_hash,
                            objects_data |-> dumps(dets),
                            description  |-> text,
                            usage_count  |-> 1])

\* save_detection(dets, text): the two tables after the call and what it
\* returned ("id": the new row's detection_id)
saved(table, cache, dets, text) ==
    IF dets = <<>> \/ text = <<>>
    THEN [table |-> table, cache |-> cache, result |-> "None"]
    ELSE IF fetchone(table, sha256(text))
    THEN [table |-> table, cache |-> cache, result |-> "None"]
    ELSE LET ins == insert(table, dets, text)
         IN  IF ins.result = "IntegrityError"
             THEN [table |-> table, cache |-> cache,
                   result |-> "IntegrityError"]
             ELSE [table |-> ins.table,
                   cache |-> _update_cache(cache, dets, text),
                   result |-> "id"]

\* DatabaseManager.save_detection, called with a list and a description
save_detection ==
    \E dets \in DetectionLists, text \in SavedDescriptions :
        LET s == saved(detections_table, cached_descriptions, dets, text)
        IN  /\ detections_table' = s.table
            /\ cached_descriptions' = s.cache
            /\ save_call' = [called |-> TRUE, detections |-> dets,
                             description |-> text, result |-> s.result]
            /\ cache_call' = NoLookup
            /\ UNCHANGED <<lookups, nonDbVars>>

\* get_cached_description(dets), lines 118-146: the cache after the call
\* and what it returned; a row found has its usage_count raised by the
\* UPDATE of lines 135-142
cached(cache, dets) ==
    LET objects_hash == sha256(dumps_sort_keys(dets))
        hit == {i \in 1..Len(cache) : cache[i].objects_hash = objects_hash}
    IN  IF dets = <<>> \/ hit = {}
        THEN [cache |-> cache, result |-> "None"]
        ELSE [cache  |-> [i \in 1..Len(cache) |->
                             IF i \in hit
                             THEN [cache[i] EXCEPT !.usage_count = @ + 1]
                             ELSE cache[i]],
              result |-> cache[CHOOSE i \in hit : TRUE].description]

\* DatabaseManager.get_cached_description, called with a list
get_cached_description ==
    /\ lookups < MaxLookups
    /\ \E dets \in DetectionLists :
           LET c == cached(cached_descriptions, dets)
           IN  /\ cached_descriptions' = c.cache
               /\ cache_call' = [called |-> TRUE, detections |-> dets,
                                 result |-> c.result]
    /\ lookups' = lookups + 1
    /\ save_call' = NoSave
    /\ UNCHANGED <<detections_table, nonDbVars>>

\* DatabaseManager.cleanup_cache, lines 217-229: the question mark of
\* datetime('now', '-? days') stands inside a string literal, the statement
\* has no placeholder for the one value bound to it, and execute raises
\* sqlite3.ProgrammingError before a row is deleted
cleanup_cache ==
    /\ save_call' = NoSave
    /\ cache_call' = [called |-> FALSE, detections |-> <<>>,
                      result |-> "ProgrammingError"]
    /\ UNCHANGED <<detections_table, cached_descriptions, lookups,
                   nonDbVars>>

----------------------------------------------------------------------------
(* VisionAssistantApp of the dashboard variant: kimi/app.py.  One          *)
(* VisionAssistantApp object; the script thread calls start_assistant and  *)
(* stop_assistant, every start runs process_frames and analyze_frames in   *)
(* two new threads.  The counters frame_count and object_count of the      *)
(* session are written and shown only: left out.  The camera delivers      *)
(* every frame it is asked for (the branch of lines 158-161 is left out),  *)
(* and detect_objects is taken by its result: nothing, or a list of        *)
(* detections.                                                             *)

\* CONFIG['processing']
frame_skip == 2
description_cooldown == 3

\* queue.Queue(maxsize=3), line 116
frame_queue_maxsize == 3

\* line 212: the entries the history keeps
history_limit == 10

\* the threads of one start are those of generation starts
Generations == 1..MaxStarts

\* what the language agent answers: generate_description ends its text
\* with a full stop, so the text is never blank
Descriptions == {<<"a", ".">>, <<"b", ".">>}

\* the lists detect_objects returns when it finds something
Found == {<<"cup">>}

StartText ==
    <<"Asistente visual activado. Empezando a analizar el entorno.">>
StopText == <<"Asistente visual desactivado.">>

NoReturn == [call |-> "none", value |-> "none"]

\* what the state outside the app object and its audio module is
nonDashVars == <<claudeVars, laterVars>>

\* VisionAssistantApp.__init__ and _initialize_session_state
InitDashboard ==
    /\ is_running = FALSE
    /\ app_queue = <<>>
    /\ starts = 0
    /\ main_pc = "idle"
    /\ returned = NoReturn
    /\ frame_pc = [g \in Generations |-> "none"]
    /\ frame_counter = [g \in Generations |-> 0]
    /\ analysis_pc = [g \in Generations |-> "none"]
    /\ analysis_time = [g \in Generations |-> 0]
    /\ analysis_last_time = [g \in Generations |-> 0]
    /\ found = [g \in Generations |-> <<>>]
    /\ description = [g \in Generations |-> <<>>]
    /\ last_description = <<>>
    /\ detection_history = <<>>
    /\ spoken = <<>>

\* the session state and the locals of the threads
sessionVars == <<last_description, detection_history, spoken>>
frameVars == <<frame_pc, frame_counter>>
analysisVars == <<analysis_pc, analysis_time, analysis_last_time, found,
                  description>>
mainVars == <<main_pc, returned>>

\* start_assistant, lines 239-247: the test of is_running, the flag and the
\* two threads
start_assistant ==
    /\ main_pc = "idle"
    /\ IF is_running
       THEN /\ returned' = [call |-> "start", value |-> "False"]
            /\ UNCHANGED <<is_running, starts, main_pc, frameVars,
                           analysisVars>>
       ELSE /\ starts < MaxStarts
            /\ is_running' = TRUE
            /\ starts' = starts + 1
            /\ frame_pc' = [frame_pc EXCEPT ![starts + 1] = "while"]
            /\ frame_counter' = [frame_counter EXCEPT ![starts + 1] = 0]
            /\ analysis_pc' = [analysis_pc EXCEPT ![starts + 1] = "while"]
            /\ analysis_last_time' =
                   [analysis_last_time EXCEPT ![starts + 1] = 0]
            /\ main_pc' = "start_speak"
            /\ returned' = [call |-> "start", value |-> "pending"]
            /\ UNCHANGED <<analysis_time, found, description>>
    /\ UNCHANGED <<app_queue, sessionVars, moduleVars, dbVars, nonDashVars>>

\* lines 250-253: the start message and return True
start_speak ==
    /\ main_pc = "start_speak"
    /\ speak_plain(StartText)
    /\ main_pc' = "idle"
    /\ returned' = [call |-> "start", value |-> "True"]
    /\ UNCHANGED <<is_running, app_queue, starts, frameVars, analysisVars,
                   sessionVars, dbVars, nonDashVars>>

\* stop_assistant, lines 258-259: the test of is_running and the flag
stop_assistant ==
    /\ main_pc = "idle"
    /\ IF is_running
       THEN /\ is_running' = FALSE
            /\ main_pc' = "join_frame"
            /\ returned' = [call |-> "stop", value |-> "pending"]
       ELSE /\ returned' = [call |-> "stop", value |-> "False"]
            /\ UNCHANGED <<is_running, main_pc>>
    /\ UNCHANGED <<app_queue, starts, frameVars, analysisVars, sessionVars,
                   moduleVars, dbVars, nonDashVars>>

\* lines 262-263: frame_thread.join(timeout=2) returns, the thread over or
\* the two seconds
stop_join_frame ==
    /\ main_pc = "join_frame"
    /\ \E timed_out \in BOOLEAN : join(frame_pc[starts], timed_out)
    /\ main_pc' = "join_analysis"
    /\ UNCHANGED <<is_running, app_queue, starts, returned, frameVars,
                   analysisVars, sessionVars, moduleVars, dbVars,
                   nonDashVars>>

\* lines 264-272: analysis_thread.join(timeout=2) returns, and the frame
\* queue is emptied
stop_join_analysis ==
    /\ main_pc = "join_analysis"
    /\ \E timed_out \in BOOLEAN : join(analysis_pc[starts], timed_out)
    /\ app_queue' = <<>>
    /\ main_pc' = "stop_speak"
    /\ UNCHANGED <<is_running, starts, returned, frameVars, analysisVars,
                   sessionVars, moduleVars, dbVars, nonDashVars>>

\* lines 275-278: the stop message and return True
stop_speak ==
    /\ main_pc = "stop_speak"
    /\ speak_plain(StopText)
    /\ main_pc' = "idle"
    /\ returned' = [call |-> "stop", value |-> "True"]
    /\ UNCHANGED <<is_running, app_queue, starts, frameVars, analysisVars,
                   sessionVars, dbVars, nonDashVars>>

\* render_dashboard, lines 358-361: the button that clears the history
clear_history ==
    /\ main_pc = "idle"
    /\ detection_history # <<>> \/ last_description # <<>>
    /\ detection_history' = <<>>
    /\ last_description' = <<>>
    /\ UNCHANGED <<is_running, app_queue, starts, mainVars, frameVars,
                   analysisVars, spoken, moduleVars, dbVars, nonDashVars>>

\* process_frames, line 156: the test of the while loop
frame_while(g) ==
    /\ frame_pc[g] = "while"
    /\ frame_pc' = [frame_pc EXCEPT ![g] =
                       IF is_running THEN "read" ELSE "done"]
    /\ UNCHANGED <<is_running, app_queue, starts, mainVars, frame_counter,
                   analysisVars, sessionVars, moduleVars, dbVars,
                   nonDashVars>>

\* frame_queue.full()
full_queue(q) == Len(q) >= frame_queue_maxsize

\* lines 157-170: cap.read() delivers a frame (ret is True); every
\* frame_skip-th frame is put on the queue unless the queue is full
\* (frame_counter is kept modulo frame_skip)
frame_put(g) ==
    /\ frame_pc[g] = "read"
    /\ LET counter == (frame_counter[g] + 1) % frame_skip
       IN  /\ frame_counter' = [frame_counter EXCEPT ![g] = counter]
           /\ app_queue' = IF counter = 0 /\ ~full_queue(app_queue)
                           THEN Append(app_queue, "frame")
                           ELSE app_queue
    /\ frame_pc' = [frame_pc EXCEPT ![g] = "while"]
    /\ UNCHANGED <<is_running, starts, mainVars, analysisVars, sessionVars,
                   moduleVars, dbVars, nonDashVars>>

\* the locals of an iteration of analyze_frames go
Forgotten(g) ==
    /\ analysis_time' = [analysis_time EXCEPT ![g] = 0]
    /\ found' = [found EXCEPT ![g] = <<>>]
    /\ description' = [description EXCEPT ![g] = <<>>]

\* line 188: analysis_time - last_description_time < cooldown
in_description_cooldown(now, last) == now - last < description_cooldown

\* analyze_frames, lines 179-200 and 232-233: the test of the while loop; a
\* frame is taken off the queue; the cooldown test on the time of the
\* dequeue; detect_objects finds nothing (or raises) and the iteration is
\* over, or it finds something, the language agent gives a description and
\* line 200 tests it: description and description != last_description
analysis_get(g) ==
    /\ analysis_pc[g] = "while"
    /\ IF ~is_running
       THEN /\ analysis_pc' = [analysis_pc EXCEPT ![g] = "done"]
            /\ UNCHANGED <<app_queue, analysis_time, found, description>>
       ELSE /\ app_queue # <<>>
            /\ app_queue' = Tail(app_queue)
            /\ IF in_description_cooldown(clock, analysis_last_time[g])
               THEN UNCHANGED <<analysis_pc, analysis_time, found,
                                description>>
               ELSE \/ UNCHANGED <<analysis_pc, analysis_time, found,
                                   description>>
                    \/ \E dets \in Found, text \in Descriptions :
                          IF text # <<>> /\ text # last_description
                          THEN /\ analysis_time' =
                                      [analysis_time EXCEPT ![g] = clock]
                               /\ found' = [found EXCEPT ![g] = dets]
                               /\ description' =
                                      [description EXCEPT ![g] = text]
                               /\ analysis_pc' =
                                      [analysis_pc EXCEPT ![g] = "record"]
                          ELSE UNCHANGED <<analysis_pc, analysis_time,
                                           found, description>>
    /\ UNCHANGED <<is_running, starts, mainVars, frameVars,
                   analysis_last_time, sessionVars, moduleVars, dbVars,
                   nonDashVars>>

\* lines 204-213: the history with the item put in front, cut to its limit
\* (strftime("%H:%M:%S") of now: the second)
inserted(history, text, dets) ==
    LET longer == <<[timestamp |-> clock, description |-> text,
                     objects |-> Len(dets)]>> \o history
    IN  IF Len(longer) > history_limit
        THEN SubSeq(longer, 1, history_limit)
        ELSE longer

\* lines 201-228.  The description is recorded and spoken with priority:
\* the call of speak begins (module_call).  What follows the call, the row
\* in the database and the restart of the cooldown at the time of the
\* dequeue, runs once speak has returned.  With a text that passes line 35
\* of speak the call goes on to its with-statement and its put
\* (module_with, module_clear, module_put).
analysis_record(g) ==
    /\ analysis_pc[g] = "record"
    /\ last_description' = description[g]
    /\ detection_history' =
           inserted(detection_history, description[g], found[g])
    /\ spoken' = Append(spoken, [thread |-> g, time |-> clock])
    /\ IF speakable(description[g])
       THEN /\ module_call(analysis_thread(g), description[g], TRUE)
            /\ analysis_pc' = [analysis_pc EXCEPT ![g] = "speak"]
            /\ UNCHANGED <<analysis_time, analysis_last_time, found,
                           description, dbVars>>
       ELSE LET s == saved(detections_table, cached_descriptions, found[g],
                           description[g])
            IN  /\ detections_table' = s.table
                /\ cached_descriptions' = s.cache
                /\ save_call' = [called |-> TRUE, detections |-> found[g],
                                 description |-> description[g],
                                 result |-> s.result]
                /\ UNCHANGED <<cache_call, lookups>>
                /\ analysis_last_time' =
                       [analysis_last_time EXCEPT ![g] = analysis_time[g]]
                /\ analysis_pc' = [analysis_pc EXCEPT ![g] = "while"]
                /\ Forgotten(g)
                /\ UNCHANGED moduleVars
    /\ UNCHANGED <<is_running, app_queue, starts, mainVars, frameVars,
                   nonDashVars>>

----------------------------------------------------------------------------
(* VisionAgent of the dashboard variant: kimi/agents/vision_agent.py.  A   *)
(* detection is the name of its object and its horizontal position; its    *)
(* confidence, box and the rest of its position play no part in the        *)
(* filter.  detect_objects is called by one thread at a time.              *)

\* the boxes of a frame that pass the test of lines 42-43
AgentDetections ==
    {[object |-> "cup", horizontal |-> "centro"],
     [object |-> "cup", horizontal |-> "izquierda"]}

\* most such boxes in a frame
MaxAgentFrame == 2

AgentFrames == UNION {[1..n -> AgentDetections] : n \in 0..MaxAgentFrame}

\* the seconds of time.time() the agent's calls are spread over
AgentHorizon == 5

\* line 101: cooldown=3.0
filter_cooldown == 3

\* what the state outside VisionAgent is
nonAgentVars == <<claudeVars, moduleVars, dbVars, dashVars, statsVars,
                  adaptVars, restVars>>

\* line 108: f"{obj_name}_{detection['position']['horizontal']}"
obj_key(det) == <<det.object, "_", det.horizontal>>

AgentKeys == {obj_key(det) : det \in AgentDetections}

\* no call yet
NoDetect == [called |-> FALSE, detections |-> <<>>, time |-> 0,
             result |-> <<>>]

\* line 23: defaultdict(lambda: {'count': 0, 'last_seen': 0}), a key is
\* there with these values as soon as it is asked for
InitAgent ==
    /\ agent_history =
           [k \in AgentKeys |-> [count |-> 0, last_seen |-> 0]]
    /\ agent_call = NoDetect
    /\ agent_reports = <<>>

\* line 111 without the cooldown
cooled_at_once(now, last_seen) == now - last_seen >= 0

\* line 111: (current_time - last_seen) > cooldown
cooled(now, last_seen) == now - last_seen > filter_cooldown

\* lines 106-114: the for loop on what is left of the list
RECURSIVE filter_loop(_, _, _, _)
filter_loop(rest, now, history, filtered) ==
    IF rest = <<>>
    THEN [history |-> history, filtered |-> filtered]
    ELSE LET det == Head(rest)
             k == obj_key(det)
         IN  IF cooled(now, history[k].last_seen)
             THEN filter_loop(Tail(rest), now,
                      [history EXCEPT ![k] =
                          [count |-> @.count + 1, last_seen |-> now]],
                      Append(filtered, det))
             ELSE filter_loop(Tail(rest), now, history, filtered)

\* _filter_recent_detections(detections) at time.time() = now
_filter_recent_detections(dets, now, history) ==
    filter_loop(dets, now, history, <<>>)

\* the reports with those of a call behind them
RECURSIVE reported(_, _, _)
reported(reports, filtered, now) ==
    IF filtered = <<>> THEN reports
    ELSE reported(Append(reports, [key |-> obj_key(Head(filtered)),
                                   time |-> now]),
                  Tail(filtered), now)

\* VisionAgent.detect_objects on a frame, lines 27-59
detect_objects ==
    \E dets \in AgentFrames :
        LET r == _filter_recent_detections(dets, clock, agent_history)
        IN  /\ agent_history' = r.history
            /\ agent_call' = [called |-> TRUE, detections |-> dets,
                              time |-> clock, result |-> r.filtered]
            /\ agent_reports' = reported(agent_reports, r.filtered, clock)
            /\ UNCHANGED nonAgentVars

\* time.time() goes on between the calls
AdvanceAgent ==
    /\ clock < StartTime + AgentHorizon
    /\ clock' = clock + 1
    /\ UNCHANGED <<filterVars, audioVars, proxVars, descVars, extVars>>

----------------------------------------------------------------------------
(* The statistics of BatteryOptimizer: should_process_frame and            *)
(* should_call_ollama of utils/battery_optimizer.py                        *)

\* POWER_PROFILES, lines 27-64: the fields the optimizer reads
POWER_PROFILES ==
    [performance |-> [fps_processing |-> 10, description_interval |-> 1,
                      ollama_enabled |-> TRUE],
     balanced    |-> [fps_processing |-> 5, description_interval |-> 2,
                      ollama_enabled |-> TRUE],
     power_saver |-> [fps_processing |-> 3, description_interval |-> 3,
                      ollama_enabled |-> FALSE],
     ultra_saver |-> [fps_processing |-> 1, description_interval |-> 5,
                      ollama_enabled |-> FALSE]]

\* line 142: one frame of every 30
ultra_saver_every == 30

\* the calls of should_process_frame and of should_call_ollama of a run
MaxFrameCalls == 60
MaxOllamaCalls == 3

\* battery levels, one for each mode of the table of update_battery_status
ProfileLevels == {5, 15, 35, 90}

\* the last_call_time should_call_ollama is given: 0 (no call yet) or a
\* time.time() of the run
LastCallTimes == {0} \cup (StartTime..(StartTime + Horizon))

\* no call yet
NoFrameCall == [n |-> 0, result |-> TRUE]
NoOllamaCall == [n |-> 0, last_call_time |-> 0, time |-> 0, result |-> TRUE]

\* BatteryOptimizer.__init__, lines 83-88
InitStats ==
    /\ stats = [total_frames |-> 0, frames_skipped |-> 0,
                ollama_calls_skipped |-> 0, start_time |-> StartTime]
    /\ frame_call = NoFrameCall
    /\ ollama_call = NoOllamaCall

\* lines 140-142 with the count of the frames before this one
skips_before(mode, total_frames) ==
    mode = "ultra_saver" /\ (total_frames - 1) % ultra_saver_every # 0

\* lines 140-142: ULTRA_SAVER and total_frames % 30 != 0
skips(mode, total_frames) ==
    mode = "ultra_saver" /\ total_frames % ultra_saver_every # 0

\* BatteryOptimizer.should_process_frame, lines 137-146
should_process_frame ==
    /\ frame_call.n < MaxFrameCalls
    /\ LET total == stats.total_frames + 1
       IN  /\ stats' = [stats EXCEPT
                           !.total_frames = total,
                           !.frames_skipped =
                               IF skips(current_mode, total) THEN @ + 1
                               ELSE @]
           /\ frame_call' = [n |-> frame_call.n + 1,
                             result |-> ~skips(current_mode, total)]
    /\ UNCHANGED <<claudeVars, moduleVars, dbVars, dashVars, agentVars,
                   adaptVars, restVars, ollama_call>>

\* line 159 with <= for <
too_soon_or_just(now, last_call_time, interval) ==
    now - last_call_time <= interval

\* line 159: current_time - last_call_time < profile.description_interval
too_soon(now, last_call_time, interval) == now - last_call_time < interval

\* BatteryOptimizer.should_call_ollama(last_call_time), lines 150-162
should_call_ollama ==
    /\ ollama_call.n < MaxOllamaCalls
    /\ \E last_call_time \in LastCallTimes :
          LET profile == POWER_PROFILES[current_mode]
          IN  IF ~profile.ollama_enabled
              THEN /\ stats' = [stats EXCEPT !.ollama_calls_skipped = @ + 1]
                   /\ ollama_call' =
                          [n |-> ollama_call.n + 1,
                           last_call_time |-> last_call_time,
                           time |-> clock, result |-> FALSE]
              ELSE /\ stats' = stats
                   /\ ollama_call' =
                          [n |-> ollama_call.n + 1,
                           last_call_time |-> last_call_time,
                           time |-> clock,
                           result |-> ~too_soon(clock, last_call_time,
                                          profile.description_interval)]
    /\ UNCHANGED <<claudeVars, moduleVars, dbVars, dashVars, agentVars,
                   adaptVars, restVars, frame_call>>

----------------------------------------------------------------------------
(* AdaptiveCameraHandler: core/camera_handler.py, lines 128-149, and the   *)
(* interval of the capture loop, line 58.  An interval is in milliseconds. *)

\* PerformanceConfig.adaptive_fps and battery_save_threshold
adaptive_fps == TRUE
battery_save_threshold == 20

\* line 144: the level below which the rate is the middle one
battery_middle_level == 50

\* the battery levels update_battery is given, in percent
CameraLevels == {10, 19, 20, 35, 49, 50, 100}

\* lines 140-149: the rate for a level
fps_for(level) ==
    IF level < battery_save_threshold THEN 2
    ELSE IF level < battery_middle_level THEN 3
    ELSE 5

\* line 58: 1.0 / config.camera.fps_processing
interval(fps) == 1000 \div fps

\* AdaptiveCameraHandler.__init__, and the capture thread at its loop test:
\* it computed frame_interval when it began, from the config as it was
InitAdaptive ==
    /\ camera_battery_level = 100
    /\ frame_interval = interval(AppConfig.fps_processing)

\* AdaptiveCameraHandler.update_battery(level)
update_battery ==
    \E level \in CameraLevels :
        /\ camera_battery_level' = level
        /\ config' = IF adaptive_fps
                     THEN [config EXCEPT !.fps_processing = fps_for(level)]
                     ELSE config
        /\ UNCHANGED <<coreVars, camVars, workerVars, battVars, load_pc,
                       data, load_result, load_outcome, moduleVars, dbVars,
                       dashVars, agentVars, statsVars, restVars,
                       frame_interval>>

----------------------------------------------------------------------------
(* POST /process and POST /detect of server/api_server.py: what a request  *)
(* is answered with.  A request carries its frame as a text; the boxes it  *)
(* shows, what model.predict and the description service come to, and the  *)
(* versions of the libraries are the request's surroundings.               *)

\* request.frame: the base64 text of an image, of bytes that are no
\* image, the empty text, a text b64decode does not accept
Payloads == {"image", "no_image", "empty", "no_base64"}

\* the boxes the detector finds in the image of a request: none, a cup
\* at 1.0 m, a person at 4.0 m
ApiFrames ==
    { <<>>,
      <<[cls |-> "cup", size |-> 60, cx |-> 20]>>,
      <<[cls |-> "person", size |-> 15, cx |-> 80]>> }

\* what the POST to the description service comes to
ApiOutcomes == {o \in Outcomes : o.kind \in {"ok", "timeout"}}

\* self.model.predict returns or raises
Predicts == {"returns", "raises"}

\* cv2.imdecode of an empty buffer: None, or cv2.error (by the version)
EmptyDecodes == {"None", "cv2.error"}

\* str(e) of an HTTPException: "400: Frame inválido" where the class
\* defines __str__, the empty string where it does not (by the version)
HttpStrs == {"status: detail", ""}

\* what the state outside the API server is
nonApiVars == <<claudeVars, moduleVars, dbVars, dashVars, agentVars,
                statsVars, adaptVars, faceVars>>

NoRequest == [route |-> "none"]
NoResponse == [status_code |-> 0]

InitApi ==
    /\ api_request = NoRequest
    /\ api_response = NoResponse


\* an exception of the handler
Raised(type, status_code, detail) ==
    [raised |-> TRUE, type |-> type, status_code |-> status_code,
     detail |-> detail]

\* lines 98-103 and 135-140: b64decode, frombuffer, imdecode and the test
\* of the frame; what the try block has at hand after them
decoded(req) ==
    CASE req.frame = "no_base64" ->
             Raised("binascii.Error", 0, <<"Incorrect padding">>)
      [] req.frame = "empty" /\ req.empty_decode = "cv2.error" ->
             Raised("cv2.error", 0, <<"!buf.empty()">>)
      [] req.frame = "image" ->
             [raised |-> FALSE, frame |-> req.boxes]
      [] OTHER ->
             Raised("HTTPException", 400, <<"Frame inválido">>)

\* lines 106-109 and 143-144: detect and filter_relevant
detected(req, image) ==
    IF req.predict = "raises"
    THEN Raised("RuntimeError", 0, <<"predict">>)
    ELSE [raised |-> FALSE, relevant |-> filter_relevant(detect(image))]

\* str(e), lines 126 and 155
str(exc, req) ==
    IF exc.type = "HTTPException"
    THEN IF req.http_str = ""
         THEN <<>>
         ELSE <<"400", ": ">> \o exc.detail
    ELSE exc.detail

\* the except clause that lets an HTTPException of the try block through
except_Exception_passing(exc, req) ==
    IF exc.type = "HTTPException"
    THEN [status_code |-> exc.status_code, detail |-> exc.detail]
    ELSE [status_code |-> 500, detail |-> str(exc, req)]

\* lines 125-126 and 154-155: except Exception as e: raise
\* HTTPException(status_code=500, detail=str(e)); HTTPException is a
\* subclass of Exception.  The answer FastAPI makes of the exception
except_Exception(exc, req) ==
    [status_code |-> 500, detail |-> str(exc, req)]

\* process_frame, lines 94-126: the answer to POST /process
process_frame(req) ==
    LET d == decoded(req)
    IN  IF d.raised THEN except_Exception(d, req)
        ELSE LET r == detected(req, d.frame)
             IN  IF r.raised THEN except_Exception(r, req)
                 ELSE [status_code |-> 200,
                       detections  |-> r.relevant,
                       description |->
                           IF req.generate_description /\ r.relevant # <<>>
                           THEN generate_description(r.relevant,
                                                     req.outcome).result
                           ELSE None]

\* detect_only, lines 131-155: the answer to POST /detect
detect_only_answer(req) ==
    LET d == decoded(req)
    IN  IF d.raised THEN except_Exception(d, req)
        ELSE LET r == detected(req, d.frame)
             IN  IF r.raised THEN except_Exception(r, req)
                 ELSE [status_code |-> 200,
                       detections  |-> r.relevant,
                       count       |-> Len(r.relevant)]

\* the requests a route is sent
Requests(route) ==
    [route : {route}, frame : Payloads, generate_description : BOOLEAN,
     boxes : ApiFrames, predict : Predicts, outcome : ApiOutcomes,
     empty_decode : EmptyDecodes, http_str : HttpStrs]

\* a client POSTs to /process and is answered
post_process ==
    \E req \in Requests("/process") :
        /\ api_request' = req
        /\ api_response' = process_frame(req)
        /\ UNCHANGED nonApiVars

\* a client POSTs to /detect and is answered
post_detect ==
    \E req \in Requests("/detect") :
        /\ api_request' = req
        /\ api_response' = detect_only_answer(req)
        /\ UNCHANGED nonApiVars

----------------------------------------------------------------------------
(* The page "Registrar Rostros": Z AI/pages/2_👤_Registrar_Rostros.py.     *)
(* One session of one user.  Every interaction with a widget runs the      *)
(* script once; recv runs in the thread of the video stream.  An image is  *)
(* known by the number of faces face_locations finds in it.                *)

\* what the user types into the text_input
NameInputs == {<<>>, <<" ">>, <<"a">>, <<"b", " ">>}

\* the images the camera delivers
Images == {"no_face", "one_face", "two_faces"}

\* what the state outside the page is
nonFaceVars == <<claudeVars, moduleVars, dbVars, dashVars, agentVars,
                 statsVars, adaptVars, apiVars>>

\* ctx.video_processor is None
NoProcessor ==
    [made |-> FALSE, capture_frame |-> FALSE, latest_frame |-> "None"]

\* lines 37-39 and the page as it is first shown: the stream not started,
\* no face registered
InitFace ==
    /\ capture_stage = 0
    /\ pending_name = <<>>
    /\ info_msg = ""
    /\ name_input = <<>>
    /\ ctx_playing = FALSE
    /\ video_processor = NoProcessor
    /\ faces_pkl = {}
    /\ shown = ""

InitRest == InitApi /\ InitFace

\* len(face_recognition.face_locations(rgb_frame)), lines 123-127
face_locations(image) ==
    CASE image = "no_face" -> 0
      [] image = "one_face" -> 1
      [] image = "two_faces" -> 2

\* line 71: the user types a name; the script runs without a button press
text_input ==
    \E typed \in NameInputs :
        /\ name_input' = typed
        /\ shown' = ""
        /\ UNCHANGED <<capture_stage, pending_name, info_msg, ctx_playing,
                       video_processor, faces_pkl, nonFaceVars>>

\* START of webrtc_streamer, lines 73-79: the stream plays, its processor
\* is yet to be made
webrtc_start ==
    /\ ~ctx_playing
    /\ ctx_playing' = TRUE
    /\ shown' = ""
    /\ UNCHANGED <<capture_stage, pending_name, info_msg, name_input,
                   video_processor, faces_pkl, nonFaceVars>>

\* video_processor_factory, line 78, and __init__, lines 56-58
FaceRegistrationProcessor ==
    /\ ctx_playing
    /\ ~video_processor.made
    /\ video_processor' = [made |-> TRUE, capture_frame |-> FALSE,
                           latest_frame |-> "None"]
    /\ UNCHANGED <<capture_stage, pending_name, info_msg, name_input,
                   ctx_playing, faces_pkl, shown, nonFaceVars>>

\* STOP of webrtc_streamer: the stream and its processor are gone
webrtc_stop ==
    /\ ctx_playing
    /\ ctx_playing' = FALSE
    /\ video_processor' = NoProcessor
    /\ shown' = ""
    /\ UNCHANGED <<capture_stage, pending_name, info_msg, name_input,
                   faces_pkl, nonFaceVars>>

\* FaceRegistrationProcessor.recv, lines 60-68, on one image of the stream
recv(image) ==
    /\ video_processor.made
    /\ video_processor' =
           IF video_processor.capture_frame
           THEN [video_processor EXCEPT !.latest_frame = image,
                                        !.capture_frame = FALSE]
           ELSE video_processor
    /\ UNCHANGED <<capture_stage, pending_name, info_msg, name_input,
                   ctx_playing, faces_pkl, shown, nonFaceVars>>

\* lines 91-103: the button pressed at stage 0
capture ==
    IF strip(name_input) = <<>>
    THEN /\ shown' = "warning: name"
         /\ UNCHANGED <<capture_stage, pending_name, info_msg,
                        video_processor, faces_pkl>>
    ELSE IF ~video_processor.made
    THEN /\ shown' = "warning: camera"
         /\ UNCHANGED <<capture_stage, pending_name, info_msg,
                        video_processor, faces_pkl>>
    ELSE /\ pending_name' = strip(name_input)
         /\ video_processor' =
                [video_processor EXCEPT !.capture_frame = TRUE]
         /\ capture_stage' = 1
         /\ info_msg' = "Rostro capturado."
         /\ shown' = ""
         /\ UNCHANGED faces_pkl

\* lines 106-147: the button pressed at stage 1; pickle.dump writes the
\* file or raises
save ==
    IF ~video_processor.made \/ video_processor.latest_frame = "None"
    THEN /\ shown' = "warning: no image"
         /\ UNCHANGED <<capture_stage, pending_name, info_msg,
                        video_processor, faces_pkl>>
    ELSE IF strip(pending_name) = <<>>
    THEN /\ shown' = "error: no name"
         /\ UNCHANGED <<capture_stage, pending_name, info_msg,
                        video_processor, faces_pkl>>
    ELSE IF face_locations(video_processor.latest_frame) = 0
    THEN /\ shown' = "error: no face"
         /\ UNCHANGED <<capture_stage, pending_name, info_msg,
                        video_processor, faces_pkl>>
    ELSE IF face_locations(video_processor.latest_frame) > 1
    THEN /\ shown' = "error: several faces"
         /\ UNCHANGED <<capture_stage, pending_name, info_msg,
                        video_processor, faces_pkl>>
    ELSE /\ \/ /\ faces_pkl' = faces_pkl \cup {strip(pending_name)}
               /\ shown' = "success"
            \/ /\ faces_pkl' = faces_pkl
               /\ shown' = "error: faces.pkl"
         /\ capture_stage' = 0
         /\ pending_name' = <<>>
         /\ info_msg' = ""
         /\ video_processor' =
                [video_processor EXCEPT !.latest_frame = "None"]

\* lines 86-147: the button of the two stages is pressed
button ==
    /\ ctx_playing
    /\ IF capture_stage = 0 THEN capture ELSE save
    /\ UNCHANGED <<name_input, ctx_playing, nonFaceVars>>

----------------------------------------------------------------------------
(* The components on their own *)

\* the state outside the pipeline after construction
InitExt ==
    /\ InitCamera /\ InitWorker /\ InitBattery /\ InitConfig
    /\ InitModule /\ InitDatabase /\ InitDashboard
    /\ InitAgent /\ InitStats /\ InitAdaptive /\ InitRest

\* the speech queue, its callers and the audio thread
InitAudioSystem == InitCore /\ InitExt

NextAudio ==
    \/ \E c \in Callers : speak_call(c)
    \/ \E c \in Callers : speak_clear(c)
    \/ \E c \in Callers : speak_put(c)
    \/ \E w \in audio_threads : worker_get(w)
    \/ \E w \in audio_threads : worker_say(w)
    \/ \E w \in audio_threads : worker_done(w)
    \/ \E w \in audio_threads : worker_raise(w)
    \/ \E w \in audio_threads : worker_except(w)

SpecAudio == InitAudioSystem /\ [][NextAudio]_vars

\* the audio thread is a thread of its own: it is scheduled again and again,
\* and the engine ends every utterance, by returning or by raising
AudioFairness ==
    \A w \in audio_threads :
        /\ WF_vars(worker_get(w))
        /\ WF_vars(worker_say(w))
        /\ WF_vars(worker_done(w) \/ worker_raise(w))
        /\ WF_vars(worker_except(w))

SpecAudioLive == SpecAudio /\ AudioFairness

\* the camera handler on its own
InitCameraSystem == InitCore /\ InitExt

NextCamera ==
    \/ capture_while
    \/ capture_read
    \/ capture_full
    \/ capture_put
    \/ capture_next
    \/ read
    \/ read_done
    \/ stop_flag
    \/ stop_join

SpecCamera == InitCameraSystem /\ [][NextCamera]_vars

\* load_config on its own
InitConfigSystem == InitCore /\ InitExt

NextConfig == load_open \/ load_config

SpecConfig == InitConfigSystem /\ [][NextConfig]_vars

\* the battery optimizer on its own
InitBatterySystem == InitCore /\ InitExt

NextBattery == update_battery_status

SpecBattery == InitBatterySystem /\ [][NextBattery]_vars

\* AudioModule on its own
InitModuleSystem == InitCore /\ InitExt

NextModule ==
    \/ \E c \in ModuleCallers : module_speak(c)
    \/ \E c \in ModuleCallers : module_with(c)
    \/ \E c \in ModuleCallers : module_clear(c)
    \/ \E c \in ModuleCallers : module_put(c)
    \/ \E c \in ModuleCallers : module_return(c)
    \/ speech_get
    \/ speech_say

SpecModule == InitModuleSystem /\ [][NextModule]_vars

\* every thread is scheduled again and again: a caller inside speak takes
\* its next step whenever that step can be taken, and so does the speech
\* thread
ModuleFairness ==
    /\ \A c \in ModuleCallers :
           /\ WF_vars(module_with(c))
           /\ WF_vars(module_clear(c))
           /\ WF_vars(module_put(c))
           /\ WF_vars(module_return(c))
    /\ WF_vars(speech_get)
    /\ WF_vars(speech_say)

SpecModuleLive == SpecModule /\ ModuleFairness

\* DatabaseManager on its own
InitDatabaseSystem == InitCore /\ InitExt

NextDatabase == save_detection \/ get_cached_description \/ cleanup_cache

SpecDatabase == InitDatabaseSystem /\ [][NextDatabase]_vars

\* the API server on its own
InitApiSystem == InitCore /\ InitExt

NextApi == post_process \/ post_detect

SpecApi == InitApiSystem /\ [][NextApi]_vars

\* the registration page on its own: the user and the video stream
InitFaceSystem == InitCore /\ InitExt

NextFace ==
    \/ text_input
    \/ webrtc_start
    \/ FaceRegistrationProcessor
    \/ webrtc_stop
    \/ \E image \in Images : recv(image)
    \/ button

SpecFace == InitFaceSystem /\ [][NextFace]_vars

\* the stream delivers its images to recv as long as it plays, the
\* processor is made once the stream plays, and the user goes on pressing
\* the button
FaceFairness ==
    /\ WF_vars(\E image \in Images : recv(image))
    /\ WF_vars(FaceRegistrationProcessor)
    /\ WF_vars(button)

SpecFaceLive == SpecFace /\ FaceFairness

\* the dashboard: the script thread and the threads of the app object, in
\* the runs where the camera delivers every frame it is asked for, the
\* speech thread has not yet taken a message off its queue and everything
\* happens within one second of time.time()
InitDashboardSystem == InitCore /\ InitExt

NextDashboard ==
    \/ start_assistant
    \/ start_speak
    \/ stop_assistant
    \/ stop_join_frame
    \/ stop_join_analysis
    \/ stop_speak
    \/ clear_history
    \/ \E g \in Generations : frame_while(g)
    \/ \E g \in Generations : frame_put(g)
    \/ \E g \in Generations : analysis_get(g)
    \/ \E g \in Generations : analysis_record(g)
    \/ \E c \in ModuleCallers : module_with(c)
    \/ \E c \in ModuleCallers : module_clear(c)

SpecDashboard == InitDashboardSystem /\ [][NextDashboard]_vars

\* the vision agent and the time of its calls
InitAgentSystem == InitCore /\ InitExt

NextAgent == detect_objects \/ AdvanceAgent

SpecAgent == InitAgentSystem /\ [][NextAgent]_vars

\* the optimizer's frame gate, with a battery that changes
InitFramesSystem == InitCore /\ InitExt

NextFrames ==
    \/ \E level \in ProfileLevels, charging \in BOOLEAN :
           update_battery_status_to(level, charging)
    \/ should_process_frame

SpecFrames == InitFramesSystem /\ [][NextFrames]_vars

\* the optimizer's language-model gate, with a battery that changes
InitOllamaSystem == InitCore /\ InitExt

NextOllama ==
    \/ \E level \in ProfileLevels, charging \in BOOLEAN :
           update_battery_status_to(level, charging)
    \/ should_call_ollama
    \/ Advance

SpecOllama == InitOllamaSystem /\ [][NextOllama]_vars

\* the adaptive camera handler: the capture thread, the reader and the
\* battery
InitAdaptiveSystem == InitCore /\ InitExt

NextAdaptive == NextCamera \/ update_battery

SpecAdaptive == InitAdaptiveSystem /\ [][NextAdaptive]_vars

----------------------------------------------------------------------------
(* VisualAssistant: app2.py.  One action is one iteration of _main_loop on *)
(* a frame the camera delivered (the session statistics are left out).    *)

InitAssistant ==
    /\ pc = "tick"
    /\ frame = <<>>
    /\ detections = <<>>
    /\ relevant = <<>>
    /\ clock = StartTime
    /\ enabled = TRUE
    /\ audio_queue = speak(<<>>, Greeting, "normal", FALSE)
    /\ InitProx
    /\ InitDesc
    /\ InitExt

\* the record of a call, without the field that carries the new time
CallRecord(c) ==
    [called |-> c.called, elapsed |-> c.elapsed, result |-> c.result,
     service |-> c.service]

\* the description step of an iteration, lines 93-103, on the queue q that
\* check_proximity left
describe(rel, q, outcome) ==
    IF clock - last_description_time >= min_time_between_descriptions
    THEN LET c == adaptive_generate_description(
                      rel, clock, lp_last_description_time, outcome)
         IN  /\ lp_call' = CallRecord(c)
             /\ lp_last_description_time' = c.last
             /\ IF Truthy(c.result)
                THEN /\ audio_queue' = speak(q, c.result.text, "normal", FALSE)
                     /\ last_description_time' = clock
                ELSE /\ audio_queue' = q
                     /\ last_description_time' = last_description_time
    ELSE /\ lp_call' = NoCall
         /\ audio_queue' = q
         /\ UNCHANGED <<lp_last_description_time, last_description_time>>

\* the iteration with the proximity check inside the description throttle
iteration_check_throttled(boxes, outcome) ==
    LET dets == detect(boxes)
        rel  == filter_relevant(dets)
    IN  /\ frame' = boxes
        /\ detections' = IF dets = <<>> THEN dets
                         ELSE Marked(dets, FilterLoop(dets, <<>>))
        /\ relevant' = rel
        /\ IF rel = <<>>
              \/ clock - last_description_time < min_time_between_descriptions
           THEN /\ lp_call' = NoCall
                /\ UNCHANGED <<audio_queue, proxVars,
                               lp_last_description_time,
                               last_description_time>>
           ELSE LET st == ProxLoop(rel, clock,
                              [lat |-> last_alert_time, out |-> <<>>,
                               q |-> audio_queue])
                IN  /\ last_alert_time' = st.lat
                    /\ checked' = rel
                    /\ emitted' = st.out
                    /\ alert_log' = Logged(alert_log, st.out, clock)
                    /\ describe(rel, st.q, outcome)

\* one iteration of the while loop, lines 67-111, on a frame with the boxes
\* given, the service answering with outcome
iteration(boxes, outcome) ==
    LET dets == detect(boxes)
        rel  == filter_relevant(dets)
    IN  /\ frame' = boxes
        /\ detections' = IF dets = <<>> THEN dets
                         ELSE Marked(dets, FilterLoop(dets, <<>>))
        /\ relevant' = rel
        /\ IF rel = <<>>
           THEN /\ lp_call' = NoCall
                /\ UNCHANGED <<audio_queue, proxVars,
                               lp_last_description_time,
                               last_description_time>>
           ELSE LET st == ProxLoop(rel, clock,
                              [lat |-> last_alert_time, out |-> <<>>,
                               q |-> audio_queue])
                IN  /\ last_alert_time' = st.lat
                    /\ checked' = rel
                    /\ emitted' = st.out
                    /\ alert_log' = Logged(alert_log, st.out, clock)
                    /\ describe(rel, st.q, outcome)

_main_loop ==
    /\ pc = "tick"
    /\ Len(audio_queue) < MaxQueue
    /\ \E boxes \in SeqsUpTo(BoxKinds, MaxFrame), outcome \in Outcomes :
          iteration(boxes, outcome)
    /\ pc' = "ticked"
    /\ UNCHANGED <<extVars, clock, enabled>>

\* the farewell VisualAssistant.stop speaks
Farewell == <<"Asistente visual desactivado. Hasta pronto.">>

\* an iteration in which model.predict raises inside detector.detect (line
\* 76): neither detect nor _main_loop has a handler, start() handles
\* KeyboardInterrupt only, so its finally runs stop() and the exception
\* leaves start(): the loop is over
_main_loop_raises ==
    /\ pc = "tick"
    /\ Len(audio_queue) < MaxQueue
    /\ pc' = "stopped"
    /\ audio_queue' = speak(audio_queue, Farewell, "normal", FALSE)
    /\ UNCHANGED <<extVars, frame, detections, relevant, clock, enabled,
                   proxVars, descVars>>

\* time.sleep at the end of the iteration: the locals of the iteration go
end_iteration ==
    /\ pc = "ticked"
    /\ pc' = "tick"
    /\ frame' = <<>>
    /\ detections' = <<>>
    /\ relevant' = <<>>
    /\ checked' = <<>>
    /\ emitted' = <<>>
    /\ lp_call' = NoCall
    /\ UNCHANGED <<extVars, clock, audioVars, last_alert_time, alert_log,
                   lp_last_description_time, last_description_time>>

Next ==
    \/ _main_loop
    \/ _main_loop_raises
    \/ end_iteration
    \/ _audio_loop
    \/ Advance

Init == InitAssistant

Spec == Init /\ [][Next]_vars

----------------------------------------------------------------------------
(* The proximity alert system called with lists of detections while       *)
(* descriptions are spoken and the audio worker runs.                     *)

\* a priority class and another one; 0.8 m, and 1.0 m and 2.0 m where the
\* levels change
ProxClasses == {"person", "cup"}
ProxDistances == {8, 10, 20}

\* the lists of at most n detections (id: place in the list)
ProxLists(n) ==
    { [i \in 1..Len(s) |->
          [id |-> i, class |-> s[i][1], distance |-> s[i][2],
           position |-> "frente", priority |-> "alta"]] :
      s \in SeqsUpTo(ProxClasses \X ProxDistances, n) }

InitProxSystem ==
    /\ pc = "tick"
    /\ frame = <<>>
    /\ detections = <<>>
    /\ relevant = <<>>
    /\ clock = StartTime
    /\ enabled = TRUE
    /\ audio_queue = speak(<<>>, Greeting, "normal", FALSE)
    /\ InitProx
    /\ InitDesc
    /\ InitExt

\* a tick that has a list of relevant detections checks it
check_proximity_call ==
    /\ pc = "tick"
    /\ \E dets \in ProxLists(MaxProx) : check_proximity(dets)
    /\ pc' = "alerted"
    /\ UNCHANGED <<extVars, frame, detections, relevant, clock, enabled, descVars>>

\* the tick ends and its list goes out of scope
end_tick ==
    /\ pc = "alerted"
    /\ pc' = "tick"
    /\ checked' = <<>>
    /\ emitted' = <<>>
    /\ UNCHANGED <<extVars, frame, detections, relevant, clock, audioVars,
                   last_alert_time, alert_log, descVars>>

NextProx ==
    \/ check_proximity_call
    \/ end_tick
    \/ _audio_loop
    \/ Advance

SpecProx == InitProxSystem /\ [][NextProx]_vars

----------------------------------------------------------------------------
(* POST /detect: api_server.detect_only, one request per behaviour *)

InitFilter ==
    /\ pc = "request"
    /\ frame \in SeqsUpTo(BoxKinds, MaxBoxes)
    /\ detections = <<>>
    /\ relevant = <<>>
    /\ clock = StartTime
    /\ InitAudio
    /\ InitProx
    /\ InitDesc
    /\ InitExt

detect_only ==
    /\ pc = "request"
    /\ LET dets == detect(frame)
           rel  == FilterLoop(dets, <<>>)
       IN  /\ detections' = Marked(dets, rel)
           /\ relevant' = filter_relevant(dets)
    /\ pc' = "done"
    /\ UNCHANGED <<extVars, frame, clock, audioVars, proxVars, descVars>>

NextFilter == detect_only

SpecFilter == InitFilter /\ [][NextFilter]_vars

----------------------------------------------------------------------------
(* The relevance filter: claims C1 - C3, checked under SpecFilter *)

\* the detection of the input list that relevant[k] came from
SameObject(r, d) ==
    /\ r.id = d.id
    /\ r.class = d.class
    /\ r.distance = d.distance
    /\ r.position = d.position

InOutput(d) == \E k \in 1..Len(relevant) : SameObject(relevant[k], d)

\* the three rules of the spec's section 4.1
KeepRule(d) ==
    \/ d.distance < 20
    \/ d.class \in priority_classes /\ d.distance < 50
    \/ d.position = "frente" /\ d.distance < 40

RulePriority(d) == IF d.distance < 20 THEN "alta" ELSE "media"

\* how many detections in front of detections[i] satisfy a rule
KeptBefore(i) == Cardinality({ j \in 1..(i - 1) : KeepRule(detections[j]) })

\* C1 as stated: every detection of the input with distance < 2.0 is in the
\* returned list, whatever its class or position.
C1_EveryNearDetectionRetained ==
    pc = "done" =>
        \A i \in 1..Len(detections) :
            detections[i].distance < 20 => InOutput(detections[i])

\* C1 amended: a detection with distance < 2.0 is in the returned list, with
\* priority 'alta', whatever its class or position, whenever fewer than five
\* retained detections precede it in the input list.
C1_NearRetainedUpToLimit ==
    pc = "done" =>
        \A i \in 1..Len(detections) :
            (detections[i].distance < 20 /\ KeptBefore(i) < 5) =>
                \E k \in 1..Len(relevant) :
                    /\ SameObject(relevant[k], detections[i])
                    /\ relevant[k].priority = "alta"

\* a frame with six objects, the five nearest closer than 2.0 m and neither a
\* priority class nor in front, all five returned
C1_Witness ==
    /\ pc = "done"
    /\ Len(detections) = 6
    /\ Len(relevant) = 5
    /\ \A i \in 1..5 :
          /\ detections[i].distance < 20
          /\ detections[i].class \notin priority_classes
          /\ detections[i].position # "frente"
          /\ InOutput(detections[i])

\* the index in the input list of the detection relevant[k] came from
InputIndex(k) ==
    CHOOSE i \in 1..Len(detections) : detections[i].id = relevant[k].id

\* C2: the output of filter_relevant has at most 5 entries, is a subsequence
\* of the input (the input's relative order is kept) and is in ascending order
\* of distance.
C2_AtMostFiveOrdered ==
    pc = "done" =>
        /\ Len(relevant) <= 5
        /\ \A k \in 1..Len(relevant) :
              \E i \in 1..Len(detections) : SameObject(relevant[k], detections[i])
        /\ \A k, l \in 1..Len(relevant) :
              k < l => /\ InputIndex(k) < InputIndex(l)
                       /\ relevant[k].distance <= relevant[l].distance

\* six boxes given farthest first, five of them relevant at three distances
C2_Witness ==
    /\ pc = "done"
    /\ Len(frame) = 6
    /\ \A i \in 1..5 : frame[i].size <= frame[i + 1].size
    /\ frame[1].size < frame[6].size
    /\ Len(relevant) = 5
    /\ Cardinality({ relevant[k].distance : k \in 1..5 }) = 3

\* the marked detections of the input, in input order
RECURSIVE MarkedOnly(_)
MarkedOnly(dets) ==
    IF dets = <<>> THEN <<>>
    ELSE IF Head(dets).priority # NoPriority
         THEN <<Head(dets)>> \o MarkedOnly(Tail(dets))
         ELSE MarkedOnly(Tail(dets))

----------------------------------------------------------------------------
(* Proximity alerts: claims C4, C5 and C10, checked under SpecProx *)

\* the step is a call of check_proximity with the list checked'
CheckStep ==
    /\ pc = "tick"
    /\ pc' = "alerted"
    /\ check_proximity(checked')

\* the level the spec's section 4.2 gives a distance
SpecLevel(distance) ==
    IF distance < 10 THEN "critical"
    ELSE IF distance < 20 THEN "warning"
    ELSE "none"

\* the class alerted less than 3 seconds before the call
CoolingDown(class) ==
    /\ class \in DOMAIN last_alert_time
    /\ clock - last_alert_time[class] < 3

\* C4: check_proximity classifies each detection by its distance alone:
\* below 1.0 m critical, from 1.0 m to below 2.0 m warning, from 2.0 m on no
\* alert.  Every alert of a call carries the level of its detection's
\* distance, a detection at 2.0 m or more gets none, and a detection below
\* 2.0 m gets one unless its class is cooling down or was alerted earlier in
\* the same call.
C4_LevelByDistance ==
    [][CheckStep =>
        \A i \in 1..Len(checked') :
            LET d     == checked'[i]
                level == SpecLevel(d.distance)
                first == \A j \in 1..(i - 1) :
                            \/ checked'[j].class # d.class
                            \/ SpecLevel(checked'[j].distance) = "none"
            IN  /\ \A k \in 1..Len(emitted') :
                      emitted'[k].id = i =>
                          /\ level # "none"
                          /\ emitted'[k].level = level
                          /\ emitted'[k].distance = d.distance
                /\ (level # "none" /\ first /\ ~CoolingDown(d.class)) =>
                      \E k \in 1..Len(emitted') : emitted'[k].id = i
    ]_vars

\* a critical alert at 0.8 m on record, and a call with a detection at 1.0 m
\* that got a warning and one at 2.0 m that got nothing
C4_Witness ==
    /\ \E c \in DOMAIN alert_log :
          \E n \in 1..Len(alert_log[c]) : alert_log[c][n].level = "critical"
    /\ Len(checked) = 2
    /\ checked[1].distance = 10
    /\ checked[2].distance = 20
    /\ Len(emitted) = 1
    /\ emitted[1].id = 1
    /\ emitted[1].level = "warning"

\* C5: two alerts emitted for the same object class are never less than 3
\* seconds apart, across calls and within one call.
C5_CooldownPerClass ==
    \A c \in DOMAIN alert_log :
        \A i, j \in 1..Len(alert_log[c]) :
            i < j => alert_log[c][j].at - alert_log[c][i].at >= 3

\* a warning for a class, then exactly 3 seconds later a call with two
\* detections of that class below 2.0 m: one critical alert, the second
\* detection silent
C5_Witness ==
    \E c \in DOMAIN alert_log :
        /\ Len(alert_log[c]) = 2
        /\ alert_log[c][1].level = "warning"
        /\ alert_log[c][2].level = "critical"
        /\ alert_log[c][2].at = alert_log[c][1].at + 3
        /\ Len(checked) = 2
        /\ \A i \in 1..2 : checked[i].class = c /\ checked[i].distance < 20
        /\ Len(emitted) = 1
        /\ emitted[1].level = "critical"

\* the critical alerts among the emissions of a call
CriticalIn(out) == { k \in 1..Len(out) : out[k].level = "critical" }

----------------------------------------------------------------------------
(* The description throttle: claims C6 - C9, checked under Spec *)

\* the step is one iteration of the main loop
TickStep == pc = "tick" /\ pc' = "ticked"

\* some detection of the list is closer than 2.0 m
Danger(dets) == \E i \in 1..Len(dets) : dets[i].distance < 20

\* C6: in any iteration of the main loop in which a relevant detection is
\* closer than 2.0 m, generate_description is called whatever time has passed
\* since the previous description, and the description it returns (when it
\* has any text) is enqueued for speech in that iteration and the loop's
\* throttle timer is reset.
C6_DangerAlwaysDescribed ==
    [][(TickStep /\ Danger(relevant')) =>
          /\ lp_call'.called
          /\ Truthy(lp_call'.result) =>
                /\ audio_queue' # <<>>
                /\ audio_queue'[Len(audio_queue')].text = lp_call'.result.text
                /\ last_description_time' = clock
    ]_vars

\* C7: AdaptiveLanguageProcessor.generate_description called with a list
\* that has a detection closer than 2.0 m always goes on to generate (it
\* posts to the service and returns a string) and sets its
\* last_description_time to the current time, whatever the value before.
C7_DangerBypassesInterval ==
    [][(TickStep /\ lp_call'.called /\ Danger(relevant')) =>
          /\ lp_call'.service # "idle"
          /\ ~lp_call'.result.none
          /\ lp_last_description_time' = clock
    ]_vars

\* a call in danger less than 2 seconds after the processor's last one
C7_Witness ==
    /\ pc = "ticked"
    /\ lp_call.called
    /\ Danger(relevant)
    /\ lp_call.elapsed < 2
    /\ lp_call.service # "idle"
    /\ lp_last_description_time = clock

\* C8: with no detection closer than 2.0 m,
\* AdaptiveLanguageProcessor.generate_description generates only if at least
\* the minimum interval (2 s) has passed since last_description_time;
\* before that it returns None, does not post to the service and leaves
\* last_description_time as it was.
C8_IntervalWithoutDanger ==
    [][(TickStep /\ lp_call'.called /\ ~Danger(relevant')) =>
          /\ (~lp_call'.result.none \/ lp_call'.service # "idle") =>
                clock - lp_last_description_time >= 2
          /\ clock - lp_last_description_time < 2 =>
                /\ lp_call'.result = None
                /\ lp_call'.service = "idle"
                /\ lp_last_description_time' = lp_last_description_time
    ]_vars

\* a call without danger inside the interval that returned None
C8_Witness ==
    /\ pc = "ticked"
    /\ lp_call.called
    /\ relevant # <<>>
    /\ ~Danger(relevant)
    /\ lp_call.elapsed < 2
    /\ lp_call.result = None
    /\ lp_call.service = "idle"
    /\ lp_last_description_time < clock

\* C9: when the service raises, times out or answers with another status
\* than 200, generate_description returns (it does not raise) a non-empty
\* fallback string built from the first detection of the list, the nearest,
\* which starts with that object's name.
C9_FallbackNamesNearest ==
    (pc = "ticked" /\ lp_call.called
        /\ lp_call.service \in {"status", "timeout", "error"}) =>
        /\ ~lp_call.result.none
        /\ lp_call.result.text # <<>>
        /\ lp_call.result.text[1] = _translate_class(relevant[1].class)
        /\ \A i \in 1..Len(relevant) :
              relevant[1].distance <= relevant[i].distance

\* the service timed out on a list of a cup and a person: the fallback names
\* the cup, which is nearer
C9_Witness ==
    /\ pc = "ticked"
    /\ lp_call.called
    /\ lp_call.service = "timeout"
    /\ Len(relevant) = 2
    /\ relevant[1].class = "cup"
    /\ relevant[2].class = "person"
    /\ relevant[1].distance < relevant[2].distance
    /\ lp_call.result.text[1] = "taza"

----------------------------------------------------------------------------
(* The frame queue: claims C11, C16 and C19, checked under SpecCamera *)

\* the step is a call of CameraHandler.read
ReadStep == read_pc = "idle" /\ read_pc' = "returned"

\* C11: the frame queue never holds more than frame_buffer_size frames.
\* When the capture thread holds a new frame and finds the queue full, it
\* goes on without storing it: the queue stays as it is and the frame is
\* let go.  A frame enters the queue only at the tail, from the capture
\* thread, and leaves it only at the head, through read: the oldest frame
\* is never the one dropped.
C11_NewestFrameDropped ==
    [][
        /\ Len(frame_queue) <= frame_buffer_size
        /\ Len(frame_queue') <= frame_buffer_size
        /\ (capture_pc = "full" /\ capture_pc' # "full"
                /\ Len(frame_queue) = frame_buffer_size) =>
              /\ capture_pc' = "dropped"
              /\ frame_queue' = frame_queue
              /\ processed_frame' = processed_frame
        /\ (capture_pc = "dropped" /\ capture_pc' # "dropped") =>
              /\ capture_pc' = "while"
              /\ processed_frame' = NoFrame
              /\ frame_queue' = frame_queue
        /\ \/ frame_queue' = frame_queue
           \/ ReadStep /\ frame_queue # <<>>
                 /\ frame_queue' = Tail(frame_queue)
           \/ capture_pc = "put" /\ capture_pc' = "stored"
                 /\ frame_queue' = Append(frame_queue, processed_frame)
    ]_vars

\* the eleventh frame found the queue full: it is dropped, the first frame
\* is still the head of the queue
C11_Witness ==
    /\ capture_pc = "dropped"
    /\ Len(frame_queue) = frame_buffer_size
    /\ frame_queue[1] = 1
    /\ processed_frame = frame_buffer_size + 1
    /\ \A i \in 1..Len(frame_queue) : frame_queue[i] # processed_frame

\* C16: once CameraHandler.stop has returned, no further frame is added to
\* the frame queue.
C16_NoFrameAfterStop ==
    [][stop_pc = "returned" => Len(frame_queue') <= Len(frame_queue)]_vars

\* C19: CameraHandler.read returns the most recent frame: None when the
\* queue is empty, and otherwise the frame captured last, also when the
\* queue holds several frames.
C19_ReadReturnsNewest ==
    [][ReadStep =>
          read_result' = IF frame_queue = <<>> THEN NoFrame
                         ELSE frame_queue[Len(frame_queue)]
    ]_vars

----------------------------------------------------------------------------
(* The speech queue: claims C12, C13, C15 and C17, checked under SpecAudio *)
(* (C15 under SpecAudioLive)                                               *)

\* the audio thread w hands its message to the engine
SayStep(w) == worker_pc[w] = "say" /\ worker_pc'[w] = "runAndWait"

\* the caller c puts its utterance on the queue and returns
PutStep(c) == speak_pc[c] = "put" /\ speak_pc'[c] = "idle"

\* the number of the utterance with this text
Num(text) == CHOOSE n \in 1..MaxSpoken : Text(n) = text

\* C12: a speak with priority 'alta' or interrupt=True removes every pending
\* utterance before it enqueues its own, so that no utterance that was
\* pending before the call is played after it; a normal speak appends at the
\* tail, and the pending utterances are taken and played in FIFO order.
C12_InterruptClearsPending ==
    [][
        /\ \A c \in Callers : PutStep(c) =>
              /\ Pending(audio_queue') \cap pending_before[c] = {}
              /\ audio_queue' = Append(audio_queue,
                     audio_queue'[Len(audio_queue')])
        /\ \A w \in audio_threads : SayStep(w) =>
              /\ message[w].text \notin interrupted
              /\ \A t \in played \cup failed : Num(t) < Num(message[w].text)
    ]_vars

\* C13: at most one utterance is being played at any time: the one audio
\* thread is the only one to hand texts to the engine, and it waits for the
\* end of the utterance (or its failure) before it takes the next message,
\* whatever other threads do in speak meanwhile.
C13_OneUtteranceAtATime ==
    /\ Cardinality(playing) <= 1
    /\ Cardinality({w \in audio_threads : worker_pc[w] = "runAndWait"}) <= 1
    /\ \A w \in audio_threads :
          /\ worker_pc[w] = "runAndWait" => playing = {message[w].text}
          /\ worker_pc[w] = "get" => message[w] = NoMessage
    /\ speaking <=> playing # {}

\* an utterance is being played while one caller is in its clearing loop
\* and the other is about to put
C13_Witness ==
    /\ playing # {}
    /\ speak_pc["main"] = "clear"
    /\ speak_pc["other"] = "put"

\* the utterance n was removed from the queue by a clearing loop
Cleared(n) ==
    /\ n <= puts
    /\ Text(n) \notin Pending(audio_queue)
    /\ Text(n) \notin played \cup failed
    /\ \A w \in audio_threads : message[w].text # Text(n)

\* C15 as stated: after an engine error, every utterance enqueued afterwards
\* is eventually played.
C15_PlayedAfterError ==
    \A n \in 1..MaxSpoken :
        (Text(n) \in after_error) ~> (Text(n) \in played)

\* C15, amended: after an engine error the audio thread goes back to its
\* get, and every utterance enqueued afterwards eventually leaves the
\* queue: the audio thread takes it and plays it to the end, unless the
\* engine raises on it too or a high-priority speak has cleared it first.
C15_WorkerSurvivesError ==
    /\ \A w \in audio_threads :
          (worker_pc[w] = "except") ~> (worker_pc[w] = "get")
    /\ \A n \in 1..MaxSpoken :
          (Text(n) \in after_error) ~>
              (Text(n) \in played \/ Text(n) \in failed \/ Cleared(n))

\* the engine raised on the first utterance; the second, enqueued after
\* that, has been played
C15_Witness ==
    /\ failed = {Text(1)}
    /\ Text(2) \in after_error
    /\ Text(2) \in played

\* C17: the speech queue is bounded: there is a capacity, below the number
\* of speak calls made, that the number of pending utterances never exceeds.
C17_SpeechQueueBounded == Len(audio_queue) < MaxSpoken

----------------------------------------------------------------------------
(* The power mode: claim C18, checked under SpecBattery *)

\* the table of the claim
ModeOfTable(level, charging) ==
    CASE charging -> "performance"
      [] ~charging /\ level <= 10 -> "ultra_saver"
      [] ~charging /\ 10 < level /\ level <= 20 -> "power_saver"
      [] ~charging /\ 20 < level /\ level <= 50 -> "balanced"
      [] ~charging /\ level > 50 -> "performance"

\* C18: after update_battery_status(level, is_charging) the mode is
\* PERFORMANCE if charging, else ULTRA_SAVER for level <= 10, POWER_SAVER
\* for 10 < level <= 20, BALANCED for 20 < level <= 50 and PERFORMANCE above
\* 50; after any sequence of updates the mode is that of the last call's
\* arguments, whatever the calls before.
C18_ModeByTable ==
    battery_updates > 0 =>
        current_mode = ModeOfTable(battery_level, is_charging)

\* after several updates, the last with level 10 and not charging, the mode
\* is ULTRA_SAVER
C18_Witness ==
    /\ battery_updates = 2
    /\ battery_level = 10
    /\ ~is_charging
    /\ current_mode = "ultra_saver"

----------------------------------------------------------------------------
(* load_config: claim C20, checked under SpecConfig *)

\* C20: a call of load_config that fails (no such file, or loading raises)
\* returns a configuration equal to the defaults, whatever calls came
\* before, and leaves the global config as it was: no value of the failing
\* file gets into it.
C20_FailureGivesDefaults ==
    [][(load_pc = "opened" /\ load_pc' = "idle" /\ load_outcome' = "failed")
          => /\ load_result' = AppConfig
             /\ config' = config
    ]_vars

----------------------------------------------------------------------------
(* Failures of the detector: claim C14, checked under Spec *)

\* C14: a failure of an external service during an iteration, the detector
\* raising in detect in particular, is caught where the call is made and
\* replaced by an empty detection list, and _main_loop goes on with the
\* next frame: the main loop is never ended by such a failure.
C14_MainLoopSurvives == pc \in {"tick", "ticked"}

----------------------------------------------------------------------------
(* AudioModule.speak with priority *)

\* C21: a call of AudioModule.speak with priority=True that has reached its
\* with-statement returns: it neither blocks for ever nor deadlocks with
\* the speech thread.  (On return the text is to stand at the head of the
\* queue, before the messages that were pending, in their order.)
C21_PrioritySpeakReturns ==
    \A c \in ModuleCallers :
        (module_pc[c] = "with") ~> (module_pc[c] = "returned")

----------------------------------------------------------------------------
(* The order of an iteration: claim C22, checked under Spec *)

\* the detection at i of the list is the first of its class below 2.0 m
FirstNear(dets, i) ==
    /\ dets[i].distance < 20
    /\ \A j \in 1..(i - 1) :
          dets[j].class # dets[i].class \/ dets[j].distance >= 20

\* C22: in every iteration of the main loop with at least one relevant
\* detection the proximity check runs on the relevant list, whether or not
\* the description throttle lets the description step run: every relevant
\* detection below 2.0 m whose class is not cooling down is alerted, and the
\* description, if one is spoken, is enqueued behind what the check left.
\* An iteration with no detection, or with no relevant one, alerts nothing,
\* calls no description and leaves the audio queue as it was.
C22_ProximityEveryRelevantTick ==
    [][TickStep =>
        IF relevant' # <<>>
        THEN /\ checked' = relevant'
             /\ \A i \in 1..Len(relevant') :
                   (FirstNear(relevant', i)
                        /\ ~CoolingDown(relevant'[i].class)) =>
                      /\ \E k \in 1..Len(emitted') :
                            emitted'[k].id = relevant'[i].id
                      /\ last_alert_time'[relevant'[i].class] = clock
             /\ \A k \in 1..Len(emitted') :
                   \E i \in 1..Len(relevant') :
                      /\ emitted'[k].id = relevant'[i].id
                      /\ relevant'[i].distance < 20
             /\ Truthy(lp_call'.result) =>
                   /\ audio_queue' # <<>>
                   /\ audio_queue'[Len(audio_queue')].text =
                          lp_call'.result.text
                   /\ \A k \in CriticalIn(emitted') :
                          \E m \in 1..(Len(audio_queue') - 1) :
                              audio_queue'[m].text = emitted'[k].speech.text
        ELSE /\ emitted' = <<>>
             /\ checked' = <<>>
             /\ ~lp_call'.called
             /\ audio_queue' = audio_queue
             /\ last_alert_time' = last_alert_time
             /\ alert_log' = alert_log
             /\ last_description_time' = last_description_time
    ]_vars

\* an iteration inside the throttle (no description was asked for) whose
\* proximity check alerted all the same
C22_Witness ==
    /\ pc = "ticked"
    /\ relevant # <<>>
    /\ clock - last_description_time < 2
    /\ ~lp_call.called
    /\ checked = relevant
    /\ emitted # <<>>
    /\ last_alert_time[emitted[1].class] = clock

\* an iteration on a frame with detections none of which is relevant
C22_WitnessNothingRelevant ==
    /\ pc = "ticked"
    /\ detections # <<>>
    /\ relevant = <<>>
    /\ emitted = <<>>
    /\ ~lp_call.called

----------------------------------------------------------------------------
(* The detections table: claim C30, checked under SpecDatabase *)

\* the description is that of a row of the table
Stored(text) ==
    \E i \in 1..Len(detections_table) :
        detections_table[i].description = text

\* C30: save_detection stores each description at most once: no two rows of
\* the detections table have the same description, and a call with a
\* description that is already stored, with an empty list of detections or
\* with an empty description returns None and changes neither the
\* detections table nor the cache.
C30_DescriptionStoredOnce ==
    /\ [](\A i, j \in 1..Len(detections_table) :
            detections_table[i].description =
                detections_table[j].description => i = j)
    /\ [][(/\ save_call'.called
           /\ \/ Stored(save_call'.description)
              \/ save_call'.detections = <<>>
              \/ save_call'.description = <<>>) =>
             /\ save_call'.result = "None"
             /\ detections_table' = detections_table
             /\ cached_descriptions' = cached_descriptions
       ]_vars

\* a call with a stored description, after two descriptions were stored,
\* returned None
C30_Witness ==
    /\ Len(detections_table) = 2
    /\ save_call.called
    /\ save_call.detections # <<>>
    /\ Stored(save_call.description)
    /\ save_call.result = "None"
    /\ Len(cached_descriptions) >= 1

----------------------------------------------------------------------------
(* The dashboard's threads: claims C23, C24 and C29, checked under         *)
(* SpecDashboard                                                           *)

\* C23: analyze_frames never speaks two descriptions less than
\* description_cooldown apart: any two calls of speak with a description
\* are at least the cooldown apart, and a thread's cooldown timer holds 0
\* or the time of a frame whose description was spoken.
C23_DescriptionsCooldownApart ==
    /\ \A i, j \in 1..Len(spoken) :
          i < j => spoken[j].time - spoken[i].time >= description_cooldown
    /\ \A g \in Generations :
          analysis_last_time[g] # 0 =>
             \E i \in 1..Len(spoken) :
                /\ spoken[i].thread = g
                /\ spoken[i].time = analysis_last_time[g]

\* C24: analyze_frames never records a description equal to the last
\* recorded one: neighbours in the history differ; the history holds at
\* most history_limit entries, the newest first, each with its timestamp,
\* its description and its object count.
C24_HistoryNeverRepeats ==
    /\ \A i \in 1..(Len(detection_history) - 1) :
          detection_history[i].description #
              detection_history[i + 1].description
    /\ Len(detection_history) <= history_limit
    /\ \A i, j \in 1..Len(detection_history) :
          i < j => detection_history[i].timestamp >=
                       detection_history[j].timestamp
    /\ \A i \in 1..Len(detection_history) :
          /\ DOMAIN detection_history[i] =
                 {"timestamp", "description", "objects"}
          /\ detection_history[i].objects >= 1

\* C29: start_assistant returns False only when the assistant is running,
\* stop_assistant returns False only when it is not, and from the return
\* of a stop_assistant that stopped it until the next start_assistant the
\* frame queue is empty.
C29_StoppedQueueEmpty ==
    /\ returned = [call |-> "start", value |-> "False"] => is_running
    /\ returned = [call |-> "stop", value |-> "False"] => ~is_running
    /\ (starts > 0 /\ ~is_running /\ main_pc = "idle") => app_queue = <<>>

----------------------------------------------------------------------------
(* The vision agent's filter: claim C25, checked under SpecAgent *)

\* the keys of a list of detections
KeysOf(dets) == {obj_key(dets[i]) : i \in 1..Len(dets)}

\* C25: VisionAgent reports a detection of a key only if more than
\* filter_cooldown seconds have passed since the last report of that key:
\* two reports of a key are more than the cooldown apart, the result of a
\* call holds a key at most once, and whether a key of the frame is
\* reported rests on that key's reports alone: after the call every key of
\* the frame has a report at most the cooldown old, this call's or an
\* earlier one.
C25_ReportsCooldownApart ==
    /\ \A i, j \in 1..Len(agent_reports) :
          (i < j /\ agent_reports[i].key = agent_reports[j].key) =>
             agent_reports[j].time - agent_reports[i].time > filter_cooldown
    /\ agent_call.called =>
          /\ \A i, j \in 1..Len(agent_call.result) :
                i < j => obj_key(agent_call.result[i]) #
                             obj_key(agent_call.result[j])
          /\ KeysOf(agent_call.result) \subseteq KeysOf(agent_call.detections)
          /\ \A k \in KeysOf(agent_call.result) :
                \E m \in 1..Len(agent_reports) :
                    agent_reports[m] = [key |-> k, time |-> agent_call.time]
          /\ \A k \in KeysOf(agent_call.detections) :
                \E m \in 1..Len(agent_reports) :
                    /\ agent_reports[m].key = k
                    /\ agent_call.time - agent_reports[m].time
                           <= filter_cooldown

\* a frame with two boxes of one key, reported once, and that key had been
\* reported before, more than the cooldown ago; another key was reported
\* less than the cooldown ago
C25_Witness ==
    /\ agent_call.called
    /\ Len(agent_call.detections) = 2
    /\ obj_key(agent_call.detections[1]) = obj_key(agent_call.detections[2])
    /\ Len(agent_call.result) = 1
    /\ \E m, n \in 1..Len(agent_reports) :
          /\ agent_reports[m].key = obj_key(agent_call.result[1])
          /\ agent_reports[m].time < agent_call.time
          /\ agent_reports[n].key # obj_key(agent_call.result[1])
          /\ agent_reports[n].time < agent_call.time
          /\ agent_call.time - agent_reports[n].time <= filter_cooldown

----------------------------------------------------------------------------
(* The optimizer's gates: claims C26 (SpecFrames) and C27 (SpecOllama) *)

\* C26: should_process_frame increments total_frames on every call; in
\* ULTRA_SAVER it returns True exactly when the new total_frames is a
\* multiple of 30 and counts every other call in frames_skipped; in every
\* other mode it returns True and counts nothing more; and frames_skipped
\* <= total_frames always.
C26_FrameGate ==
    /\ [](/\ stats.frames_skipped <= stats.total_frames
          /\ stats.total_frames = frame_call.n)
    /\ [][frame_call'.n = frame_call.n + 1 =>
            /\ stats'.total_frames = stats.total_frames + 1
            /\ stats'.ollama_calls_skipped = stats.ollama_calls_skipped
            /\ IF current_mode = "ultra_saver"
               THEN /\ frame_call'.result = (stats'.total_frames % 30 = 0)
                    /\ stats'.frames_skipped =
                           IF frame_call'.result THEN stats.frames_skipped
                           ELSE stats.frames_skipped + 1
               ELSE /\ frame_call'.result
                    /\ stats'.frames_skipped = stats.frames_skipped
       ]_vars

\* the thirtieth call, in ULTRA_SAVER like the twenty-nine before it,
\* returned True
C26_Witness ==
    /\ current_mode = "ultra_saver"
    /\ frame_call.n = 30
    /\ frame_call.result
    /\ stats.total_frames = 30
    /\ stats.frames_skipped = 29

\* a call in another mode returned True after calls that were skipped
C26_WitnessOtherMode ==
    /\ current_mode = "power_saver"
    /\ frame_call.n = 7
    /\ frame_call.result
    /\ stats.frames_skipped = 6

\* C27: should_call_ollama returns False on every call while the profile
\* of the current mode has the language model disabled (POWER_SAVER,
\* ULTRA_SAVER), adding one to ollama_calls_skipped; otherwise it returns
\* True exactly when the time since last_call_time is at least the
\* profile's description_interval, and changes no counter.
C27_OllamaGate ==
    [][ollama_call'.n = ollama_call.n + 1 =>
          IF current_mode \in {"power_saver", "ultra_saver"}
          THEN /\ ~ollama_call'.result
               /\ stats' = [stats EXCEPT !.ollama_calls_skipped = @ + 1]
          ELSE /\ ollama_call'.result =
                      (ollama_call'.time - ollama_call'.last_call_time >=
                           POWER_PROFILES[current_mode].description_interval)
               /\ ollama_call'.time = clock
               /\ stats' = stats
    ]_vars

\* in BALANCED a call just the interval after the last one returned True,
\* after a call that was skipped
C27_Witness ==
    /\ current_mode = "balanced"
    /\ ollama_call.n >= 2
    /\ ollama_call.last_call_time > 0
    /\ ollama_call.time - ollama_call.last_call_time = 2
    /\ ollama_call.time = clock
    /\ ollama_call.result
    /\ stats.ollama_calls_skipped = 1

----------------------------------------------------------------------------
(* The adaptive frame rate: claim C28, checked under SpecAdaptive *)

\* C28: after update_battery(level), with adaptive_fps, the configured
\* rate is 2 FPS for a level below battery_save_threshold, 3 FPS for one
\* below 50 and 5 FPS otherwise, and the capture loop, the one already
\* running included, captures at that rate: its interval is that of the
\* rate.
C28_CaptureRateFollowsBattery ==
    adaptive_fps =>
       /\ config.fps_processing = fps_for(camera_battery_level)
       /\ capture_pc # "done" =>
             frame_interval = interval(fps_for(camera_battery_level))

----------------------------------------------------------------------------
(* The cache of descriptions: claim C31, checked under SpecDatabase *)

\* the rows of the cache a list of detections is the key of
RowsOf(cache, dets) ==
    {i \in 1..Len(cache) :
        cache[i].objects_hash = sha256(dumps_sort_keys(dets))}

\* the description of the first row save_detection stored for a list: the
\* description first cached for it
FirstStored(dets) ==
    LET rows == {i \in 1..Len(detections_table) :
                    detections_table[i].objects_detected = dumps(dets)}
    IN  detections_table[CHOOSE i \in rows :
                             \A j \in rows : i <= j].description

\* C31: the cache is keyed by the hash of the list of detections and the
\* first write wins.  A list has at most one row; every list
\* save_detection stored a row for has a cache row that holds the
\* description first stored for it; no call removes a row or changes its
\* key or its description; a call of save_detection that stores a row
\* for a list already cached only raises that row's usage_count by one,
\* and for a new list adds a row of usage_count 1; a call of
\* get_cached_description that hits returns the description first cached
\* and raises the row's usage_count by one, one that misses returns None
\* and changes nothing.
C31_FirstWriteWins ==
    /\ [](\A dets \in DetectionLists :
            /\ Cardinality(RowsOf(cached_descriptions, dets)) <= 1
            /\ (\E i \in 1..Len(detections_table) :
                   detections_table[i].objects_detected = dumps(dets)) =>
                  \E j \in RowsOf(cached_descriptions, dets) :
                      cached_descriptions[j].description =
                          FirstStored(dets))
    /\ [][/\ Len(cached_descriptions') >= Len(cached_descriptions)
          /\ \A i \in 1..Len(cached_descriptions) :
                /\ cached_descriptions'[i].objects_hash =
                       cached_descriptions[i].objects_hash
                /\ cached_descriptions'[i].objects_data =
                       cached_descriptions[i].objects_data
                /\ cached_descriptions'[i].description =
                       cached_descriptions[i].description
       ]_vars
    /\ [][(save_call'.called /\ save_call'.result = "id") =>
             LET rows == RowsOf(cached_descriptions, save_call'.detections)
             IN  IF rows # {}
                 THEN cached_descriptions' =
                          [i \in 1..Len(cached_descriptions) |->
                              IF i \in rows
                              THEN [cached_descriptions[i] EXCEPT
                                        !.usage_count = @ + 1]
                              ELSE cached_descriptions[i]]
                 ELSE /\ Len(cached_descriptions') =
                             Len(cached_descriptions) + 1
                      /\ LET new ==
                               cached_descriptions'[Len(cached_descriptions')]
                         IN  /\ new.description = save_call'.description
                             /\ new.usage_count = 1
                             /\ new.objects_hash =
                                    sha256(dumps_sort_keys(
                                               save_call'.detections))
       ]_vars
    /\ [][cache_call'.called =>
             LET rows == RowsOf(cached_descriptions, cache_call'.detections)
             IN  IF rows # {}
                 THEN /\ cache_call'.result =
                             FirstStored(cache_call'.detections)
                      /\ cached_descriptions' =
                             [i \in 1..Len(cached_descriptions) |->
                                 IF i \in rows
                                 THEN [cached_descriptions[i] EXCEPT
                                           !.usage_count = @ + 1]
                                 ELSE cached_descriptions[i]]
                 ELSE /\ cache_call'.result = "None"
                      /\ cached_descriptions' = cached_descriptions
       ]_vars

\* two descriptions were stored for one list, the second after the first
\* was cached, and a call of get_cached_description for the list has just
\* returned the first of them; the row was used three times at least
C31_Witness ==
    /\ Len(detections_table) = 2
    /\ detections_table[1].objects_detected =
           detections_table[2].objects_detected
    /\ cache_call.called
    /\ dumps(cache_call.detections) = detections_table[1].objects_detected
    /\ cache_call.result = detections_table[1].description
    /\ cache_call.result # detections_table[2].description
    /\ Len(cached_descriptions) = 1
    /\ cached_descriptions[1].usage_count >= 3

\* the same, after cleanup_cache was called: the row is still there
C31_WitnessAfterCleanup ==
    /\ cache_call.result = "ProgrammingError"
    /\ Len(detections_table) = 2
    /\ Len(cached_descriptions) = 1
    /\ cached_descriptions[1].usage_count = 2 + MaxLookups

----------------------------------------------------------------------------
(* The answers of the API server: claim C32, checked under SpecApi *)

\* the frame of the request cannot be decoded: cv2.imdecode makes no
\* image of its bytes (the case the handlers test with "frame is None")
Undecodable(req) ==
    \/ req.frame = "no_image"
    \/ req.frame = "empty" /\ req.empty_decode = "None"

\* C32: /process and /detect answer a frame that cannot be decoded with
\* status 400 and the detail "Frame inválido", and answer with status 500
\* only for other failures of the processing.
C32_UndecodableFrameIs400 ==
    api_request.route \in {"/process", "/detect"} =>
       /\ Undecodable(api_request) =>
             /\ api_response.status_code = 400
             /\ api_response.detail = <<"Frame inválido">>
       /\ api_response.status_code = 500 => ~Undecodable(api_request)

----------------------------------------------------------------------------
(* The two stages of the registration: claim C33, checked under            *)
(* SpecFaceLive *)

\* the last press of the button was a save that found no face or several
FailedSave == shown \in {"error: no face", "error: several faces"}

\* C33: capture_stage goes from 0 to 1 only with a name that is not empty
\* and a video processor at hand; it goes from 1 back to 0 only when
\* exactly one face was found in the captured image and stored (written
\* to faces.pkl, unless writing the file failed); and after a save that
\* failed for no face or several faces the user who goes on pressing the
\* button, with the camera on and a name in the field, gets to a new
\* capture request: capture_frame is set again.
C33_RetryAfterFailedSave ==
    /\ [][(capture_stage = 0 /\ capture_stage' = 1) =>
             /\ strip(name_input) # <<>>
             /\ video_processor.made
         ]_vars
    /\ [][(capture_stage = 1 /\ capture_stage' = 0) =>
             /\ video_processor.made
             /\ video_processor.latest_frame \in Images
             /\ face_locations(video_processor.latest_frame) = 1
             /\ \/ strip(pending_name) \in faces_pkl'
                \/ shown' = "error: faces.pkl"
         ]_vars
    /\ FailedSave ~> \/ video_processor.capture_frame
                     \/ ~ctx_playing
                     \/ strip(name_input) = <<>>

\* the states the page does not leave: at stage 1, no capture asked for,
\* no image with exactly one face at hand
Stuck ==
    /\ capture_stage = 1
    /\ ~video_processor.capture_frame
    /\ video_processor.latest_frame \in {"None", "no_face", "two_faces"}

\* a failed save leaves the page stuck, and no step of the user or of the
\* stream leads out: no capture request is reachable
FailedSaveIsFinal ==
    /\ [](FailedSave => Stuck)
    /\ [][Stuck => Stuck']_vars

====
